---- MODULE Spec2Model ----
(***************************************************************************)
(* A model of the read-only PDF library github.com/midbel/pdf: the value   *)
(* parser's dictionaries, the cross-reference readers, Open, the object    *)
(* loader and the document queries.                                        *)
(*                                                                         *)
(* Representation.  A Go string is a sequence of one-character strings.    *)
(* A Go interface{} value is a record tagged with its dynamic type.  The   *)
(* backing buffer is a sequence of cells, one cell per lexical item of the *)
(* file (a scanned object header, a value, a keyword line, a stream byte); *)
(* an offset is a cell index, counted from 0 as in the code.               *)
(***************************************************************************)
EXTENDS Integers, Sequences, FiniteSets, TLC

VARIABLES
    file,   \* Reader.buf of Document.inner: the backing buffer
    ptr,    \* Reader.ptr of Document.inner: the shared cursor
    doc,    \* the Document's fields, NoDoc before Open
    arg,    \* the input of the operation under study
    ret,    \* the result of the last operation
    walk,   \* Document.Walk's loop state and the callback's log
    thr,    \* the goroutines that run queries concurrently
    hist    \* history: what Open and earlier calls returned

vars == <<file, ptr, doc, arg, ret, walk, thr, hist>>

-----------------------------------------------------------------------------
(* Bounds of the model *)

\* the number of name/value pairs in a source dictionary
MaxPairs == 2

\* the number of nodes of a pages tree
MaxNodes == 5

\* the number of objects of a file that its Directory has no entry for
MaxAbsent == 1

\* the number of subsections of a classic xref table, or of /Index pairs
MaxSubs == 2

\* the number of records of a subsection
MaxRecs == 2

\* the number of cross-reference sections of a file, one per revision
MaxSections == 3

\* the number of objects a file defines
MaxObjs == 2

\* the items of an outline
MaxItems == 4

-----------------------------------------------------------------------------
(* Go strings *)

\* the characters of the model, in ASCII order
Charset ==
    << "/",
       "0", "1", "2", "3", "4", "5", "6", "7", "8", "9",
       "A", "B", "C", "D", "E", "F", "G", "H", "I", "J", "K", "L", "M",
       "N", "O", "P", "Q", "R", "S", "T", "U", "V", "W", "X", "Y", "Z",
       "a", "b", "c", "d", "e", "f", "g", "h", "i", "j", "k", "l", "m",
       "n", "o", "p", "q", "r", "s", "t", "u", "v", "w", "x", "y", "z" >>

OrdOf == [c \in {Charset[i] : i \in 1..Len(Charset)} |->
             CHOOSE i \in 1..Len(Charset) : Charset[i] = c]

Ord(c) == OrdOf[c]

isUpper(c) == Ord(c) >= Ord("A") /\ Ord(c) <= Ord("Z")

isLower(c) == Ord(c) >= Ord("a") /\ Ord(c) <= Ord("z")

\* strings.ToLower, on ASCII
ToLower(s) ==
    [i \in 1..Len(s) |->
        IF isUpper(s[i]) THEN Charset[Ord(s[i]) + (Ord("a") - Ord("A"))] ELSE s[i]]

\* strings.ToUpper, on ASCII
ToUpper(s) ==
    [i \in 1..Len(s) |->
        IF isLower(s[i]) THEN Charset[Ord(s[i]) - (Ord("a") - Ord("A"))] ELSE s[i]]

\* Go's < on strings: bytewise lexicographic
RECURSIVE StrLess(_, _)
StrLess(a, b) ==
    IF b = <<>> THEN FALSE
    ELSE IF a = <<>> THEN TRUE
    ELSE IF Head(a) = Head(b) THEN StrLess(Tail(a), Tail(b))
    ELSE Ord(Head(a)) < Ord(Head(b))

StrLE(a, b) == a = b \/ StrLess(a, b)

\* fmt's %d of a non-negative integer
RECURSIVE Itoa(_)
Itoa(n) ==
    IF n < 10 THEN <<Charset[n + 2]>>
    ELSE Itoa(n \div 10) \o <<Charset[(n % 10) + 2]>>

\* fmt.Sprintf("%d/%d", oid, rev)
OidOf(oid, rev) == Itoa(oid) \o <<"/">> \o Itoa(rev)

-----------------------------------------------------------------------------
(* Values: Go's interface{} with its dynamic type *)

Nil == [t |-> "nil"]

VStr(s) == [t |-> "string", v |-> s]

VInt(n) == [t |-> "int64", v |-> n]

\* a float64, by its digits
VReal(s) == [t |-> "float64", v |-> s]

VArr(a) == [t |-> "array", v |-> a]

DictV(m) == [t |-> "dict", v |-> m]

\* make(Dict)
EmptyDict == [k \in {} |-> Nil]

\* dict[k] = v
Put(d, k, v) == [x \in (DOMAIN d) \cup {k} |-> IF x = k THEN v ELSE d[x]]

-----------------------------------------------------------------------------
(* RC4 and the per-object key.  A key is a tuple, the empty tuple for no   *)
(* key.  XORing a key stream onto data is modelled by a mark that names   *)
(* the key, in front of a string and around the first byte of a payload;  *)
(* doing it again with the same key removes the mark.                      *)

decryptBytes(key, str) ==
    IF key = <<>> \/ str = <<>> THEN str
    ELSE IF Head(str).k = "rc4" /\ Head(str).key = key THEN <<Head(str).c>> \o Tail(str)
    ELSE <<[k |-> "rc4", key |-> key, c |-> Head(str)]>> \o Tail(str)

decryptString(key, str) ==
    IF key = <<>> \/ str = <<>> THEN str
    ELSE IF str # <<>> /\ Head(str) = ToString(key) THEN Tail(str)
    ELSE <<ToString(key)>> \o str

\* the alphabet of the model has no 0xFE and 0xFF: no string starts with a BOM
convertString(str) == str

\* the longest key of an object
MaxKeyLength == 16

\* len(key): a document key <<"key", data, n, rounds>> is a sum cut to n
\* bytes, the key of an object <<"md5", key, oid, rev, size>> one cut to size
keyLen(key) ==
    IF key = <<>> THEN 0 ELSE IF key[1] = "md5" THEN key[5] ELSE key[3]

\* a derivation that keeps len(key) + 5 bytes of the sum whatever the length
getEncryptionKeyUncapped(key, oid, rev) ==
    IF key = <<>> THEN <<>> ELSE <<"md5", key, oid, rev, keyLen(key) + 5>>

\* getEncryptionKey(key, oid, rev): the sum of a copy of the key followed by
\* three bytes of oid and two of rev, cut to len(key) + 5 bytes and to
\* MaxKeyLength at most; key itself is not written to
getEncryptionKey(key, oid, rev) ==
    IF key = <<>> THEN <<>>
    ELSE <<"md5", key, oid, rev,
           IF keyLen(key) + 5 > MaxKeyLength THEN MaxKeyLength ELSE keyLen(key) + 5>>

-----------------------------------------------------------------------------
(* The value parser.  A source value is what the bytes spell:              *)
(*   [k |-> "name", s]     /s                                              *)
(*   [k |-> "lit", s]      (s)                                             *)
(*   [k |-> "ref", n, g]   n g R                                           *)
(*   [k |-> "int", n]      n                                               *)
(*   [k |-> "arr", a]      [ a[1] a[2] ... ]                               *)
(*   [k |-> "dict", p]     << p[1][1] p[1][2]  p[2][1] p[2][2] ... >>      *)
(*   [k |-> "bad"]         bytes no value starts with                      *)
(* parseValue returns the value and whether it failed.                     *)

SrcName(s) == [k |-> "name", s |-> s]

SrcLit(s) == [k |-> "lit", s |-> s]

SrcRef(n, g) == [k |-> "ref", n |-> n, g |-> g]

SrcInt(n) == [k |-> "int", n |-> n]

\* a real number, by its digits
SrcReal(s) == [k |-> "real", s |-> s]

SrcArr(a) == [k |-> "arr", a |-> a]

SrcDict(p) == [k |-> "dict", p |-> p]

SrcBad == [k |-> "bad"]

\* F of the value of v, v being evaluated once
Bind(v, F(_)) == CHOOSE y \in { F(x) : x \in {v} } : TRUE

\* what a parser returns: a value, and whether it failed
Parsed(v, err) == [v |-> v, err |-> err]

RECURSIVE parseValue(_, _)
RECURSIVE parseArrayFrom(_, _, _)
RECURSIVE parseDictFrom(_, _, _)

\* a parseDict that stores the name as written
dictKeyAsIs(name) == name

\* the key under which parseDict stores a name
dictKey(name) == ToLower(name)

\* parseDict's loop: dict[strings.ToLower(name)] = value
parseDictFrom(pairs, key, dict) ==
    IF pairs = <<>> THEN Parsed(DictV(dict), FALSE)
    ELSE Bind(parseValue(pairs[1][2], key), LAMBDA value :
             IF value.err THEN Parsed(DictV(dict), TRUE)
             ELSE parseDictFrom(Tail(pairs), key, Put(dict, dictKey(pairs[1][1]), value.v)))

parseDict(pairs, key) == parseDictFrom(pairs, key, EmptyDict)

\* parseArray's loop
parseArrayFrom(items, key, arr) ==
    IF items = <<>> THEN Parsed(VArr(arr), FALSE)
    ELSE Bind(parseValue(items[1], key), LAMBDA value :
             IF value.err THEN Parsed(Nil, TRUE)
             ELSE parseArrayFrom(Tail(items), key, Append(arr, value.v)))

parseValue(sv, key) ==
    CASE sv.k = "dict" -> parseDict(sv.p, key)
      [] sv.k = "lit"  -> Parsed(VStr(convertString(decryptString(key, sv.s))), FALSE)
      [] sv.k = "arr"  -> parseArrayFrom(sv.a, key, <<>>)
      [] sv.k = "name" -> Parsed(VStr(sv.s), FALSE)
      [] sv.k = "ref"  -> Parsed(VStr(Itoa(sv.n) \o <<"/">> \o Itoa(sv.g)), FALSE)
      [] sv.k = "int"  -> Parsed(VInt(sv.n), FALSE)
      [] sv.k = "real" -> Parsed(VReal(sv.s), FALSE)
      [] OTHER         -> Parsed(Nil, TRUE)

-----------------------------------------------------------------------------
(* Dict accessors *)

getValue(d, key) ==
    Bind(ToLower(key), LAMBDA k : IF k \in DOMAIN d THEN d[k] ELSE Nil)

\* the type assertion v.(T), with T's zero value when it fails
assertType(v, t, zero) == IF v.t = t THEN v.v ELSE zero

Has(d, key) == getValue(d, key).t # "nil"

GetString(d, key) == assertType(getValue(d, key), "string", <<>>)

GetInt(d, key) == assertType(getValue(d, key), "int64", 0)

GetDict(d, key) == assertType(getValue(d, key), "dict", EmptyDict)

\* a nil slice and an empty one are both the empty sequence
GetArray(d, key) == assertType(getValue(d, key), "array", <<>>)

\* the elements of arr of dynamic type t
elemsOfType(arr, t) ==
    Bind(SelectSeq(arr, LAMBDA e : e.t = t), LAMBDA sel : [i \in 1..Len(sel) |-> sel[i].v])

GetIntArray(d, key) == elemsOfType(GetArray(d, key), "int64")

GetStringArray(d, key) == elemsOfType(GetArray(d, key), "string")

-----------------------------------------------------------------------------
(* Names the code looks up, and the type names it compares with *)

K ==
    [ type |-> <<"t", "y", "p", "e">>,
      pages |-> <<"p", "a", "g", "e", "s">>,
      count |-> <<"c", "o", "u", "n", "t">>,
      kids |-> <<"k", "i", "d", "s">>,
      contents |-> <<"c", "o", "n", "t", "e", "n", "t", "s">>,
      length |-> <<"l", "e", "n", "g", "t", "h">>,
      filter |-> <<"f", "i", "l", "t", "e", "r">>,
      decodeparms |-> <<"d", "e", "c", "o", "d", "e", "p", "a", "r", "m", "s">>,
      predictor |-> <<"p", "r", "e", "d", "i", "c", "t", "o", "r">>,
      columns |-> <<"c", "o", "l", "u", "m", "n", "s">>,
      first |-> <<"f", "i", "r", "s", "t">>,
      n |-> <<"n">>,
      lang |-> <<"l", "a", "n", "g">>,
      metadata |-> <<"m", "e", "t", "a", "d", "a", "t", "a">>,
      outlines |-> <<"o", "u", "t", "l", "i", "n", "e", "s">>,
      last |-> <<"l", "a", "s", "t">>,
      next |-> <<"n", "e", "x", "t">>,
      version |-> <<"v", "e", "r", "s", "i", "o", "n">>,
      title |-> <<"t", "i", "t", "l", "e">>,
      author |-> <<"a", "u", "t", "h", "o", "r">>,
      subject |-> <<"s", "u", "b", "j", "e", "c", "t">>,
      creator |-> <<"c", "r", "e", "a", "t", "o", "r">>,
      producer |-> <<"p", "r", "o", "d", "u", "c", "e", "r">>,
      creationdate |-> <<"c", "r", "e", "a", "t", "i", "o", "n", "d", "a", "t", "e">>,
      moddate |-> <<"m", "o", "d", "d", "a", "t", "e">>,
      index |-> <<"i", "n", "d", "e", "x">>,
      w |-> <<"w">>,
      size |-> <<"s", "i", "z", "e">>,
      prev |-> <<"p", "r", "e", "v">>,
      root |-> <<"r", "o", "o", "t">>,
      info |-> <<"i", "n", "f", "o">>,
      encrypt |-> <<"e", "n", "c", "r", "y", "p", "t">>,
      id |-> <<"i", "d">>,
      linearized |-> <<"l", "i", "n", "e", "a", "r", "i", "z", "e", "d">>,
      name |-> <<"n", "a", "m", "e">>,
      reason |-> <<"r", "e", "a", "s", "o", "n">>,
      m |-> <<"m">>,
      u |-> <<"u">>,
      o |-> <<"o">>,
      p |-> <<"p">> ]

TypeName ==
    [ Page |-> <<"P", "a", "g", "e">>,
      Pages |-> <<"P", "a", "g", "e", "s">>,
      Catalog |-> <<"C", "a", "t", "a", "l", "o", "g">>,
      ObjStm |-> <<"O", "b", "j", "S", "t", "m">>,
      FlateDecode |-> <<"F", "l", "a", "t", "e", "D", "e", "c", "o", "d", "e">>,
      Sig |-> <<"S", "i", "g">>,
      XRef |-> <<"X", "R", "e", "f">> ]

-----------------------------------------------------------------------------
(* The cells of the backing buffer *)

\* "num gen typ", what readObject scans with "%d %d %s"
HdrCell(num, gen, typ) == [k |-> "hdr", num |-> num, gen |-> gen, typ |-> typ]

\* the bytes of one value
ValCell(sv) == [k |-> "val", sv |-> sv]

\* a line holding a keyword
LineCell(s) == [k |-> "line", s |-> s]

\* a line of other text
TextCell(s) == [k |-> "text", s |-> s]

\* one byte of a stream's payload
ByteCell(b) == [k |-> "byte", b |-> b]

\* one number of an object stream's prefix table
NumCell(n) == [k |-> "num", n |-> n]

\* "first num", the head of a subsection of a classic xref table
SubCell(first, num) == [k |-> "sub", first |-> first, num |-> num]

\* "off rev typ", a record of a classic xref table
RecCell(off, rev, typ) == [k |-> "rec", off |-> off, rev |-> rev, typ |-> typ]

\* "trailer" and the dictionary after it
TrailerCell(sv) == [k |-> "trailer", sv |-> sv]

\* "startxref", the line with the offset, and "%%EOF" if it follows
StartxrefCell(off, eof) == [k |-> "startxref", off |-> off, eof |-> eof]

\* the header a zlib stream starts with
ZlibCell == [k |-> "zlib"]

\* the cell at a 0-based offset; past the end, no cell
CellAt(buf, p) == IF p >= 0 /\ p < Len(buf) THEN buf[p + 1] ELSE [k |-> "eof"]

\* the position after a read of one cell at p
After(buf, p) == IF p < Len(buf) THEN p + 1 ELSE p

\* Reader.ReadLine at p: the keyword of the line
lineAt(buf, p) == Bind(CellAt(buf, p), LAMBDA c : IF c.k = "line" THEN c.s ELSE "other")

-----------------------------------------------------------------------------
(* Pointer and Object *)

Pointer(oid, owner, offset) == [Oid |-> oid, Owner |-> owner, Offset |-> offset]

isEmbed(p) == p.Owner # <<>>

\* the Dict field of an Object: a nil map or a map
NilDict == [isnil |-> TRUE, m |-> EmptyDict]

MkDict(m) == [isnil |-> FALSE, m |-> m]

\* Object{}
ZeroObject == [Oid |-> <<>>, Dict |-> NilDict, Data |-> Nil, Content |-> <<>>]

isZero(o) == o.Oid = <<>> /\ (o.Dict.isnil \/ o.Data.t = "nil")

isType(o, str) ==
    IF o.Dict.isnil THEN FALSE ELSE GetString(o.Dict.m, K.type) = str

IsPage(o) == isType(o, TypeName.Page)

IsObjectStream(o) == isType(o, TypeName.ObjStm)

\* what Body returns, and whether it panicked
BodyResult(bytes, err, panic) == [bytes |-> bytes, err |-> err, panic |-> panic]

\* the predictor loop of Body: rows of columns+1 bytes, summed column-wise
RECURSIVE predictorRows(_, _, _, _, _)
predictorRows(buf, i, columns, row, filtered) ==
    IF i >= Len(buf) THEN BodyResult(filtered, FALSE, FALSE)
    ELSE IF \E j \in 1..columns : i + j >= Len(buf)
         THEN BodyResult(filtered, FALSE, TRUE)
         ELSE Bind([j \in 1..columns |-> ByteCell((row[j].b + buf[i + j + 1].b) % 256)],
                   LAMBDA next :
                       predictorRows(buf, i + columns + 1, columns, next, filtered \o next))

\* the second half of Body, on the bytes buf read from the stream
unpredict(o, buf) ==
    Bind(GetDict(o.Dict.m, K.decodeparms), LAMBDA dict :
        IF ~Has(o.Dict.m, K.decodeparms) \/ GetInt(dict, K.predictor) <= 1
        THEN BodyResult(buf, FALSE, FALSE)
        ELSE Bind(GetInt(dict, K.columns), LAMBDA columns :
                 IF columns < 0 THEN BodyResult(<<>>, FALSE, TRUE)
                 ELSE predictorRows(buf, 0, columns, [j \in 1..columns |-> ByteCell(0)], <<>>)))

\* Object.Body: inflate, then undo the predictor
Body(o) ==
    IF GetString(o.Dict.m, K.filter) # TypeName.FlateDecode THEN unpredict(o, o.Content)
    ELSE IF o.Content = <<>> \/ Head(o.Content) # ZlibCell THEN BodyResult(<<>>, TRUE, FALSE)
    ELSE unpredict(o, Tail(o.Content))

-----------------------------------------------------------------------------
(* readObject, as the sequence of its reads.  A frame holds what a call    *)
(* has read so far and where it stands:                                    *)
(*   "header"     fmt.Fscanf(r, "%d %d %s", &oid, &rev, &typ)              *)
(*   "value"      r.ReadValue(key)                                         *)
(*   "line"       r.ReadLine(): endobj or stream                           *)
(*   "stream"     io.ReadFull(r, tmp)                                      *)
(*   "endstream"  r.ReadLine()                                             *)
(*   "endobj"     r.ReadLine()                                             *)
(*   "done"       returned                                                 *)

Frame(pc, key, full, obj, err, panic) ==
    [pc |-> pc, key |-> key, full |-> full, obj |-> obj, err |-> err, panic |-> panic]

\* the frame after the step pc of frame f
Goto(f, pc, obj) == [f EXCEPT !.pc = pc, !.obj = obj]

\* the frame of a call that returns obj and an error
Fail(f, obj) == [f EXCEPT !.pc = "done", !.obj = obj, !.err = TRUE]

\* a frame and the position of the reader
At(f, p) == [f |-> f, ptr |-> p]

\* the object that holds the value val
withValue(obj, val) ==
    IF val.t = "dict" THEN [obj EXCEPT !.Dict = MkDict(val.v)] ELSE [obj EXCEPT !.Data = val]

\* r.ReadValue(key) at p: the cell must hold a value
readValue(buf, p, key) ==
    Bind(CellAt(buf, p), LAMBDA c :
        IF c.k = "val" THEN parseValue(c.sv, key) ELSE Parsed(Nil, TRUE))

\* io.ReadFull of length bytes at p, decrypted into obj.Content
readStream(buf, p, f, length) ==
    IF length < 0 THEN At([Fail(f, f.obj) EXCEPT !.panic = TRUE], p)
    ELSE IF Len(buf) - p < length THEN At(Fail(f, f.obj), IF p <= Len(buf) THEN Len(buf) ELSE p)
    ELSE At(Goto(f, "endstream",
                 [f.obj EXCEPT !.Content = decryptBytes(f.key, SubSeq(buf, p + 1, p + length))]),
            p + length)

\* one read of readObject, the reader being at p
readStep(buf, p, f) ==
    CASE f.pc = "header" ->
            Bind(CellAt(buf, p), LAMBDA hdr :
                IF p < 0 THEN At([Fail(f, ZeroObject) EXCEPT !.panic = TRUE], p)
                ELSE IF hdr.k # "hdr" \/ hdr.typ # "obj"
                THEN At(Fail(f, ZeroObject), After(buf, p))
                ELSE At([Goto(f, "value", [ZeroObject EXCEPT !.Oid = OidOf(hdr.num, hdr.gen)])
                            EXCEPT !.key = getEncryptionKey(f.key, hdr.num, hdr.gen)],
                        p + 1))
      [] f.pc = "value" ->
            Bind(readValue(buf, p, f.key), LAMBDA val :
                IF val.err THEN At(Fail(f, f.obj), After(buf, p))
                ELSE IF val.v.t = "dict" /\ DOMAIN val.v.v = {}
                THEN At(Goto(f, "done", f.obj), After(buf, p))
                ELSE At(Goto(f, "line", withValue(f.obj, val.v)), After(buf, p)))
      [] f.pc = "line" ->
            Bind(lineAt(buf, p), LAMBDA line :
                IF line = "endobj" THEN At(Goto(f, "done", f.obj), After(buf, p))
                ELSE IF line = "stream"
                THEN At(Goto(f, IF f.full THEN "stream" ELSE "done", f.obj), After(buf, p))
                ELSE At(Fail(f, f.obj), After(buf, p)))
      [] f.pc = "stream" -> readStream(buf, p, f, GetInt(f.obj.Dict.m, K.length))
      [] f.pc = "endstream" ->
            IF lineAt(buf, p) = "endstream" THEN At(Goto(f, "endobj", f.obj), After(buf, p))
            ELSE At(Fail(f, f.obj), After(buf, p))
      [] f.pc = "endobj" ->
            IF lineAt(buf, p) = "endobj" THEN At(Goto(f, "done", f.obj), After(buf, p))
            ELSE At(Fail(f, f.obj), After(buf, p))

\* the reads of readObject, one after the other, until it returns
RECURSIVE readRun(_, _, _)
readRun(buf, p, f) ==
    IF f.pc = "done" THEN At(f, p)
    ELSE Bind(readStep(buf, p, f), LAMBDA s : readRun(buf, s.ptr, s.f))

\* readObject(r, key, full), the reader being at p
readObject(buf, p, key, full) ==
    readRun(buf, p, Frame("header", key, full, ZeroObject, FALSE, FALSE))

-----------------------------------------------------------------------------
(* The object loader *)

\* an object, the position the cursor is left at, whether the call panicked
Loaded(obj, p, panic) == [obj |-> obj, ptr |-> p, panic |-> panic]

\* the capacity io.ReadAll starts with
ReadAllCap == 512

\* the capacity append leaves after rows of columns bytes were appended to a
\* nil slice up to n bytes: doubled, or what is needed, rounded up to a size
\* class (a multiple of 8 for these sizes)
RECURSIVE growCap(_, _, _, _)
growCap(columns, n, len, cap) ==
    IF len >= n THEN cap
    ELSE growCap(columns, n, len + columns,
                 IF len + columns <= cap THEN cap
                 ELSE Bind(IF len + columns > 2 * cap THEN len + columns ELSE 2 * cap,
                           LAMBDA c : ((c + 7) \div 8) * 8))

\* the capacity of the n bytes Body returned: that of io.ReadAll, or that of
\* the appends of the predictor loop
bodyCap(o, n) ==
    IF Has(o.Dict.m, K.decodeparms) /\ GetInt(GetDict(o.Dict.m, K.decodeparms), K.predictor) > 1
    THEN growCap(GetInt(GetDict(o.Dict.m, K.decodeparms), K.columns), n, 0, 0)
    ELSE IF n < ReadAllCap THEN ReadAllCap ELSE n

\* getEmbeddedObject after Body: the prefix table, then the value.
\* body[:first] panics beyond the capacity cap and, within it, takes the
\* zero bytes behind the body, which end up in the last token of the table;
\* body[first+offset:] panics beyond the length; a value parsed where a
\* number of the table stands is that number.
embeddedAt(bytes, cap, first, count, oid, offset) ==
    IF first < 0 \/ first > cap THEN Loaded(ZeroObject, 0, TRUE)
    ELSE Bind(IF first < Len(bytes) THEN first ELSE Len(bytes), LAMBDA npairs :
        IF offset < 0 \/ offset >= count \/ offset * 2 >= npairs
        THEN Loaded(ZeroObject, 0, FALSE)
        ELSE IF bytes[offset * 2 + 1].k # "num"
                \/ (first > Len(bytes) /\ offset * 2 + 1 = Len(bytes))
                \/ oid # OidOf(bytes[offset * 2 + 1].n, 0)
        THEN Loaded(ZeroObject, 0, FALSE)
        ELSE IF offset * 2 + 1 >= npairs THEN Loaded(ZeroObject, 0, TRUE)
        ELSE Bind(first + (IF bytes[offset * 2 + 2].k = "num"
                              /\ ~(first > Len(bytes) /\ offset * 2 + 2 = Len(bytes))
                           THEN bytes[offset * 2 + 2].n ELSE 0),
                  LAMBDA at :
            IF at < 0 \/ at > Len(bytes) THEN Loaded(ZeroObject, 0, TRUE)
            ELSE Bind(IF CellAt(bytes, at).k = "num"
                      THEN Parsed(VInt(CellAt(bytes, at).n), FALSE)
                      ELSE readValue(bytes, at, <<>>), LAMBDA val :
                IF val.err THEN Loaded(ZeroObject, 0, FALSE)
                ELSE Loaded([withValue(ZeroObject, val.v) EXCEPT !.Oid = oid, !.Data = val.v],
                            0, FALSE))))

\* Object.getEmbeddedObject(oid, offset) on an object stream
getEmbeddedObject(o, oid, offset) ==
    IF ~IsObjectStream(o) THEN Loaded(ZeroObject, 0, FALSE)
    ELSE Bind(Body(o), LAMBDA body :
        IF body.panic \/ body.err THEN Loaded(ZeroObject, 0, body.panic)
        ELSE embeddedAt(body.bytes, bodyCap(o, Len(body.bytes)), GetInt(o.Dict.m, K.first),
                        GetInt(o.Dict.m, K.n), oid, offset))

\* sort.Search(len(d.xref), func(i) { return d.xref[i].Oid <= oid }): the loop
RECURSIVE searchLoop(_, _, _, _)
searchLoop(xref, oid, i, j) ==
    IF i >= j THEN i
    ELSE IF ~StrLE(xref[((i + j) \div 2) + 1].Oid, oid)
         THEN searchLoop(xref, oid, ((i + j) \div 2) + 1, j)
         ELSE searchLoop(xref, oid, i, (i + j) \div 2)

\* a lookup that takes the entry the search stops at, whatever its Oid
foundAny(xref, i, oid) == i < Len(xref)

\* the check after the search: the entry found is the one asked for
found(xref, i, oid) == i < Len(xref) /\ xref[i + 1].Oid = oid

\* a seek that leaves the cursor where it is
seekNowhere(p, offset) == p

\* Reader.Seek(offset, io.SeekStart) at p: the new position
seekStart(p, offset) == offset

\* Document.getObjectWithOid(oid, full), the cursor being at p
RECURSIVE getObjectWithOid(_, _, _, _, _)
getObjectWithOid(d, buf, p, oid, full) ==
    IF oid = <<>> THEN Loaded(ZeroObject, p, FALSE)
    ELSE Bind(searchLoop(d.xref, oid, 0, Len(d.xref)), LAMBDA i :
        IF ~found(d.xref, i, oid) THEN Loaded(ZeroObject, p, FALSE)
        ELSE IF ~isEmbed(d.xref[i + 1])
        THEN Bind(readObject(buf, seekStart(p, d.xref[i + 1].Offset),
                             IF oid # d.encrypt THEN d.decrypt ELSE <<>>, full),
                  LAMBDA r : Loaded(r.f.obj, r.ptr, r.f.panic))
        ELSE Bind(getObjectWithOid(d, buf, p, d.xref[i + 1].Owner, TRUE), LAMBDA owner :
                 IF owner.panic THEN owner
                 ELSE Bind(getEmbeddedObject(owner.obj, d.xref[i + 1].Oid, d.xref[i + 1].Offset),
                           LAMBDA e : Loaded(e.obj, owner.ptr, e.panic))))

-----------------------------------------------------------------------------
(* The Document and its queries.  Every query takes the cursor's position  *)
(* p and returns, with its result, the position it leaves the cursor at    *)
(* and whether it panicked.                                                *)

Document(xref, catalog, info, encrypt, fileid, decrypt) ==
    [ open |-> TRUE, xref |-> xref, catalog |-> catalog, info |-> info,
      encrypt |-> encrypt, fileid |-> fileid, decrypt |-> decrypt ]

getCatalog(d, buf, p) == getObjectWithOid(d, buf, p, d.catalog, FALSE)

\* the object the catalog names under key; a null catalog is returned as it is
fromCatalog(d, buf, p, key, full) ==
    Bind(getCatalog(d, buf, p), LAMBDA c :
        IF c.panic \/ isZero(c.obj) THEN c
        ELSE getObjectWithOid(d, buf, c.ptr, GetString(c.obj.Dict.m, key), full))

getPageRoot(d, buf, p) == fromCatalog(d, buf, p, K.pages, FALSE)

\* getPageObject, a kid that is a Pages node having been loaded: kids[page-1]
\* of this node when page <= its count
pageOfKid(d, buf, r, kids2, page) ==
    IF page - 1 >= Len(kids2) THEN Loaded(ZeroObject, r.ptr, TRUE)
    ELSE getObjectWithOid(d, buf, r.ptr, kids2[page], FALSE)

\* the loop of getPageObject over the kids of the root, from the ki-th on
RECURSIVE pageLoop(_, _, _, _, _, _)
pageLoop(d, buf, p, kids, ki, page) ==
    IF ki > Len(kids) THEN Loaded(ZeroObject, p, FALSE)
    ELSE Bind(getObjectWithOid(d, buf, p, kids[ki], FALSE), LAMBDA r :
        IF r.panic \/ IsPage(r.obj) \/ isZero(r.obj) THEN r
        ELSE Bind(GetInt(r.obj.Dict.m, K.count), LAMBDA count :
            IF page <= count
            THEN pageOfKid(d, buf, r, GetStringArray(r.obj.Dict.m, K.kids), page)
            ELSE pageLoop(d, buf, r.ptr, kids, ki + 1, page - count)))

\* Document.getPageObject(obj, page)
getPageObject(d, buf, p, obj, page) ==
    IF IsPage(obj) THEN Loaded(obj, p, FALSE)
    ELSE IF page < 1 \/ page > GetInt(obj.Dict.m, K.count) THEN Loaded(ZeroObject, p, FALSE)
    ELSE pageLoop(d, buf, p, GetStringArray(obj.Dict.m, K.kids), 1, page)

\* what GetPage returns, with the object the page number resolved to
PageResult(body, err, page, p, panic) ==
    [body |-> body, err |-> err, page |-> page, ptr |-> p, panic |-> panic]

\* the loop of GetPage over the content streams, from the i-th on
RECURSIVE contentsLoop(_, _, _, _, _, _, _)
contentsLoop(d, buf, p, page, list, i, body) ==
    IF i > Len(list) THEN PageResult(body, "", page, p, FALSE)
    ELSE Bind(getObjectWithOid(d, buf, p, list[i], TRUE), LAMBDA r :
        IF r.panic THEN PageResult(<<>>, "", page, r.ptr, TRUE)
        ELSE Bind(Body(r.obj), LAMBDA b :
            IF b.panic THEN PageResult(<<>>, "", page, r.ptr, TRUE)
            ELSE IF b.err THEN PageResult(<<>>, "body", page, r.ptr, FALSE)
            ELSE contentsLoop(d, buf, r.ptr, page, list, i + 1, body \o b.bytes)))

\* the list of content streams of a page: the array, or else the one string
contentsOf(obj) ==
    Bind(GetStringArray(obj.Dict.m, K.contents), LAMBDA arr :
        IF Len(arr) = 0 THEN <<GetString(obj.Dict.m, K.contents)>> ELSE arr)

\* Document.GetPage(n)
GetPage(d, buf, p, n) ==
    Bind(getPageRoot(d, buf, p), LAMBDA root :
        IF root.panic THEN PageResult(<<>>, "", ZeroObject, root.ptr, TRUE)
        ELSE IF isZero(root.obj)
        THEN PageResult(<<>>, "empty document", ZeroObject, root.ptr, FALSE)
        ELSE Bind(getPageObject(d, buf, root.ptr, root.obj, n), LAMBDA po :
            IF po.panic THEN PageResult(<<>>, "", ZeroObject, po.ptr, TRUE)
            ELSE IF isZero(po.obj)
            THEN PageResult(<<>>, "page not found", ZeroObject, po.ptr, FALSE)
            ELSE contentsLoop(d, buf, po.ptr, po.obj, contentsOf(po.obj), 1, <<>>)))

\* what a query returns, the position of the cursor, whether it panicked
Result(val, p, panic) == [val |-> val, ptr |-> p, panic |-> panic]

\* Document.GetCount
GetCount(d, buf, p) ==
    Bind(getPageRoot(d, buf, p), LAMBDA root :
        Result(IF root.panic \/ isZero(root.obj) THEN 0 ELSE GetInt(root.obj.Dict.m, K.count),
               root.ptr, root.panic))

\* Document.GetLang
GetLang(d, buf, p) ==
    Bind(getCatalog(d, buf, p), LAMBDA c :
        Result(IF c.panic \/ isZero(c.obj) THEN <<>>
               ELSE convertString(GetString(c.obj.Dict.m, K.lang)),
               c.ptr, c.panic))

\* strconv.Atoi, the error dropped: 0 unless s is a decimal number
RECURSIVE atoiFrom(_, _)
atoiFrom(s, n) ==
    IF s = <<>> THEN n
    ELSE IF ~(Ord(Head(s)) >= Ord("0") /\ Ord(Head(s)) <= Ord("9")) THEN 0
    ELSE atoiFrom(Tail(s), 10 * n + (Ord(Head(s)) - Ord("0")))

Atoi(s) == atoiFrom(s, 0)

\* strings.Split(s, "/")
RECURSIVE splitSlash(_, _, _)
splitSlash(s, part, parts) ==
    IF s = <<>> THEN Append(parts, part)
    ELSE IF Head(s) = "/" THEN splitSlash(Tail(s), <<>>, Append(parts, part))
    ELSE splitSlash(Tail(s), Append(part, Head(s)), parts)

\* Object.ObjectId
ObjectId(o) ==
    Bind(splitSlash(o.Oid, <<>>, <<>>), LAMBDA parts :
        IF Len(parts) # 2 THEN <<0, 0>> ELSE <<Atoi(parts[1]), Atoi(parts[2])>>)

\* Document.getEncryptionKeyForObject
getEncryptionKeyForObject(d, obj) ==
    Bind(ObjectId(obj), LAMBDA id : getEncryptionKey(d.decrypt, id[1], id[2]))

\* Document.GetDocumentMetadata
GetDocumentMetadata(d, buf, p) ==
    Bind(fromCatalog(d, buf, p, K.metadata, TRUE), LAMBDA o :
        IF o.panic \/ isZero(o.obj) THEN Result(<<>>, o.ptr, o.panic)
        ELSE Bind(Body(o.obj), LAMBDA body :
            Result(decryptBytes(getEncryptionKeyForObject(d, o.obj), body.bytes),
                   o.ptr, body.panic)))

\* an Outline
Outline(title, sub) == [Title |-> title, Sub |-> sub]

\* what getOutlines returns: the lines, the cursor, whether it panicked
Lines(lines, p, panic) == [lines |-> lines, ptr |-> p, panic |-> panic]

\* Document.getOutlines(obj) and its loop, the object last loaded having the
\* Oid cur
RECURSIVE getOutlines(_, _, _, _)
RECURSIVE outlineLoop(_, _, _, _, _, _, _)
outlineLoop(d, buf, p, cur, first, last, lines) ==
    IF cur = last THEN Lines(lines, p, FALSE)
    ELSE Bind(getObjectWithOid(d, buf, p, first, FALSE), LAMBDA r :
        IF r.panic \/ isZero(r.obj) THEN Lines(<<>>, r.ptr, r.panic)
        ELSE Bind(IF Has(r.obj.Dict.m, K.first) THEN getOutlines(d, buf, r.ptr, r.obj)
                  ELSE Lines(<<>>, r.ptr, FALSE),
                  LAMBDA sub :
            IF sub.panic THEN sub
            ELSE outlineLoop(d, buf, sub.ptr, r.obj.Oid, GetString(r.obj.Dict.m, K.next), last,
                             Append(lines, Outline(GetString(r.obj.Dict.m, K.title), sub.lines)))))

getOutlines(d, buf, p, obj) ==
    IF isZero(obj) THEN Lines(<<>>, p, FALSE)
    ELSE outlineLoop(d, buf, p, obj.Oid, GetString(obj.Dict.m, K.first),
                     GetString(obj.Dict.m, K.last), <<>>)

\* Document.GetOutlines
GetOutlines(d, buf, p) ==
    Bind(fromCatalog(d, buf, p, K.outlines, FALSE), LAMBDA o :
        IF o.panic THEN Result(<<>>, o.ptr, TRUE)
        ELSE Bind(getOutlines(d, buf, o.ptr, o.obj), LAMBDA r :
            Result(IF Len(r.lines) <= 1 THEN <<>> ELSE r.lines, r.ptr, r.panic)))

\* the FileInfo GetDocumentInfo starts from
ZeroFileInfo ==
    [ Title |-> <<>>, Author |-> <<>>, Subject |-> <<>>, Creator |-> <<>>, Producer |-> <<>>,
      Created |-> <<>>, Modified |-> <<>>, Fields |-> NilDict ]

\* strings.HasPrefix(when, "D:") and then parseTime(when), the time being
\* the string it was parsed from
timeOf(when) ==
    IF Len(when) >= 2 /\ SubSeq(when, 1, 2) = <<"D", ":">> THEN when ELSE <<>>

\* the keys GetDocumentInfo does not copy into Fields
NamedInfoKeys ==
    { K.title, K.author, K.subject, K.creator, K.producer, K.creationdate, K.moddate }

\* the FileInfo of an info dictionary
FileInfoOf(m) ==
    [ Title |-> GetString(m, K.title), Author |-> GetString(m, K.author),
      Subject |-> GetString(m, K.subject), Creator |-> GetString(m, K.creator),
      Producer |-> GetString(m, K.producer),
      Created |-> timeOf(GetString(m, K.creationdate)),
      Modified |-> timeOf(GetString(m, K.moddate)),
      Fields |-> MkDict([k \in (DOMAIN m) \ NamedInfoKeys |-> m[k]]) ]

\* Document.GetDocumentInfo
GetDocumentInfo(d, buf, p) ==
    Bind(getObjectWithOid(d, buf, p, d.info, FALSE), LAMBDA o :
        Result(IF o.panic \/ isZero(o.obj) THEN ZeroFileInfo ELSE FileInfoOf(o.obj.Dict.m),
               o.ptr, o.panic))

\* readVersion: seek to the start, read a line
readVersion(buf) ==
    Bind(CellAt(buf, 0), LAMBDA c :
        Result(IF c.k = "text" THEN c.s ELSE <<>>, After(buf, 0), FALSE))

\* bytes.TrimLeft(str, cutset)
RECURSIVE TrimLeft(_, _)
TrimLeft(str, cutset) ==
    IF str # <<>> /\ Head(str) \in cutset THEN TrimLeft(Tail(str), cutset) ELSE str

\* Document.GetVersion
GetVersion(d, buf, p) ==
    Bind(getCatalog(d, buf, p), LAMBDA c :
        IF c.panic THEN Result(<<>>, c.ptr, TRUE)
        ELSE IF ~isZero(c.obj) /\ Has(c.obj.Dict.m, K.version)
        THEN Result(GetString(c.obj.Dict.m, K.version), c.ptr, FALSE)
        ELSE Bind(readVersion(buf), LAMBDA v :
                 Result(TrimLeft(v.val, {"%", "P", "D", "F", "-"}), v.ptr, FALSE)))

-----------------------------------------------------------------------------
(* The cross-reference readers *)

\* what a cross-reference reader returns
Pointers(ps, err, panic) == [ps |-> ps, err |-> err, panic |-> panic]

\* the loop of readXRef over the records of the subsection it has read the
\* head of
RECURSIVE xrefLoop(_, _, _, _, _, _)
xrefLoop(buf, p, first, num, i, ps) ==
    IF i >= num THEN Pointers(ps, FALSE, FALSE)
    ELSE Bind(CellAt(buf, p), LAMBDA c :
        IF c.k # "rec" THEN Pointers(<<>>, TRUE, FALSE)
        ELSE xrefLoop(buf, p + 1, first, num, i + 1,
                      IF c.typ = "f" THEN ps
                      ELSE Append(ps, Pointer(OidOf(first + i, c.rev), <<>>, c.off))))

\* readXRef(r), r being a Reader on buf
readXRef(buf) ==
    IF lineAt(buf, 0) # "xref" THEN Pointers(<<>>, TRUE, FALSE)
    ELSE Bind(CellAt(buf, 1), LAMBDA c :
        IF c.k # "sub" THEN Pointers(<<>>, TRUE, FALSE)
        ELSE IF c.num < 0 THEN Pointers(<<>>, FALSE, TRUE)
        ELSE xrefLoop(buf, 2, c.first, c.num, 0, <<>>))

\* Reader.ReadByte at p, 0 at the end of the buffer
byteAt(bytes, p) == Bind(CellAt(bytes, p), LAMBDA c : IF c.k = "byte" THEN c.b ELSE 0)

\* 256 to the i
RECURSIVE Pow256(_)
Pow256(i) == IF i = 0 THEN 1 ELSE 256 * Pow256(i - 1)

\* the loop of Reader.ReadInt(n): z |= int64(b) << (i * 8), i from n-1 down
RECURSIVE readIntFrom(_, _, _, _)
readIntFrom(bytes, p, i, z) ==
    IF i < 0 THEN [val |-> z, ptr |-> p]
    ELSE readIntFrom(bytes, After(bytes, p), i - 1, z + byteAt(bytes, p) * Pow256(i))

\* Reader.ReadInt(n) at p
ReadInt(bytes, p, n) ==
    IF p > Len(bytes) THEN [val |-> 0, ptr |-> p] ELSE readIntFrom(bytes, p, n - 1, 0)

\* the inner loop of Object.readXRef: xs[i] = r.ReadInt(ws[i])
RECURSIVE readFields(_, _, _, _, _)
readFields(bytes, p, ws, i, xs) ==
    IF i > Len(ws) THEN [xs |-> xs, ptr |-> p]
    ELSE Bind(ReadInt(bytes, p, ws[i]), LAMBDA r :
             readFields(bytes, r.ptr, ws, i + 1, Append(xs, r.val)))

\* the loop of Object.readXRef over the records, from the j-th on
RECURSIVE streamLoop(_, _, _, _, _, _)
streamLoop(bytes, p, ix, ws, j, ps) ==
    IF ~(j < ix[2] /\ p < Len(bytes)) THEN Pointers(ps, FALSE, FALSE)
    ELSE Bind(readFields(bytes, p, ws, 1, <<>>), LAMBDA f :
        IF Len(ws) = 0 THEN Pointers(<<>>, FALSE, TRUE)
        ELSE IF f.xs[1] \in {1, 2} /\ Len(ws) < 3 THEN Pointers(<<>>, FALSE, TRUE)
        ELSE streamLoop(bytes, f.ptr, ix, ws, j + 1,
                 IF f.xs[1] = 1
                 THEN Append(ps, Pointer(OidOf(ix[1] + j, f.xs[3]), <<>>, f.xs[2]))
                 ELSE IF f.xs[1] = 2
                 THEN Append(ps, Pointer(OidOf(ix[1] + j, 0), OidOf(f.xs[2], 0), f.xs[3]))
                 ELSE ps))

\* Object.readXRef with ix as it is after the default was put in
streamPointers(bytes, ix, ws) ==
    IF Len(ix) < 2 THEN Pointers(<<>>, FALSE, TRUE) ELSE streamLoop(bytes, 0, ix, ws, 0, <<>>)

\* Object.readXRef
objectReadXRef(o) ==
    Bind(Body(o), LAMBDA body :
        IF body.panic \/ body.err THEN Pointers(<<>>, body.err, body.panic)
        ELSE Bind(GetIntArray(o.Dict.m, K.index), LAMBDA ix :
            streamPointers(body.bytes,
                           IF Len(ix) = 0 THEN <<0, GetInt(o.Dict.m, K.size)>> ELSE ix,
                           GetIntArray(o.Dict.m, K.w))))

-----------------------------------------------------------------------------
(* The sort of readFile: sort.Slice by descending Oid.  sort.Slice is not  *)
(* stable: entries with equal Oids may come out in any order.              *)

RECURSIVE insertDesc(_, _)
insertDesc(sorted, x) ==
    IF sorted = <<>> THEN <<x>>
    ELSE IF StrLess(Head(sorted).Oid, x.Oid) THEN <<x>> \o sorted
    ELSE <<Head(sorted)>> \o insertDesc(Tail(sorted), x)

RECURSIVE sortDesc(_)
sortDesc(ps) ==
    IF ps = <<>> THEN <<>>
    ELSE Bind(sortDesc(SubSeq(ps, 1, Len(ps) - 1)), LAMBDA rest : insertDesc(rest, ps[Len(ps)]))

isSortedDesc(ps) ==
    \A i \in 1..(Len(ps) - 1) : ~StrLess(ps[i].Oid, ps[i + 1].Oid)

\* the orders sort.Slice may leave the slice in
sortSlice(ps) ==
    UNION { IF \A i, j \in 1..Len(l) : i # j => l[i].Oid # l[j].Oid
            THEN {sortDesc(l)}
            ELSE { q \in { [i \in 1..Len(l) |-> l[f[i]]] : f \in Permutations(1..Len(l)) } :
                      isSortedDesc(q) } : l \in {ps} }

-----------------------------------------------------------------------------
(* Open *)

\* Reader.Section(offset, size)
Section(buf, offset, size) == SubSeq(buf, offset + 1, offset + size)

\* Section(offset, size) slices outside the buffer
badSection(buf, offset, size) == offset < 0 \/ size < 0 \/ offset + size > Len(buf)

\* Reader.Index of a keyword: the first cell of kind k from the i-th on, -1
\* if there is none
RECURSIVE indexOf(_, _, _)
indexOf(buf, k, i) ==
    IF i >= Len(buf) THEN -1
    ELSE IF buf[i + 1].k = k THEN i ELSE indexOf(buf, k, i + 1)

\* the trailer-derived fields, as read from a dictionary
TrailerFields(m) ==
    [ encrypt |-> GetString(m, K.encrypt), catalog |-> GetString(m, K.root),
      info |-> GetString(m, K.info), fileid |-> GetStringArray(m, K.id) ]

NoFields == [encrypt |-> <<>>, catalog |-> <<>>, info |-> <<>>, fileid |-> <<>>]

\* what the readers of Open return: the offset of readTrailer or the xref of
\* the others, the fields, the error ("" for nil), the cursor of rs
Read(val, fields, err, p, panic) ==
    [val |-> val, fields |-> fields, err |-> err, ptr |-> p, panic |-> panic]

\* readStartxref on a startxref cell: ErrMissing without %%EOF
readStartxref(c) == IF c.eof THEN [off |-> c.off, err |-> ""] ELSE [off |-> 0, err |-> "missing"]

\* readTrailer(r, doc), r being a Reader on the tail of the file
readTrailer(tail) ==
    Bind(indexOf(tail, "trailer", 0), LAMBDA x :
        IF x < 0
        THEN Bind(indexOf(tail, "startxref", 0), LAMBDA y :
                 IF y < 0 THEN Read(0, NoFields, "missing", 0, FALSE)
                 ELSE Bind(readStartxref(tail[y + 1]), LAMBDA sx :
                          Read(sx.off, NoFields, IF sx.err = "" THEN "trailer" ELSE sx.err,
                               0, FALSE)))
        ELSE Bind(parseValue(tail[x + 1].sv, <<>>), LAMBDA dict :
                 IF dict.err \/ dict.v.t # "dict" THEN Read(0, NoFields, "syntax", 0, FALSE)
                 ELSE IF CellAt(tail, x + 1).k # "startxref"
                 THEN Read(0, TrailerFields(dict.v.v), "missing", 0, FALSE)
                 ELSE Bind(readStartxref(tail[x + 2]), LAMBDA sx :
                          Read(sx.off, TrailerFields(dict.v.v), sx.err, 0, FALSE))))

\* readLinearized after its first object: the older section, if /Prev names one
readPrev(buf, newer, xref) ==
    IF GetInt(newer.Dict.m, K.prev) <= 0
    THEN Read(xref, TrailerFields(newer.Dict.m), "", 0, FALSE)
    ELSE Bind(readObject(buf, seekStart(0, GetInt(newer.Dict.m, K.prev)), <<>>, TRUE),
              LAMBDA r :
        IF r.f.panic \/ r.f.err THEN Read(<<>>, NoFields, "object", r.ptr, r.f.panic)
        ELSE Bind(objectReadXRef(r.f.obj), LAMBDA others :
            IF others.panic \/ others.err THEN Read(<<>>, NoFields, "body", r.ptr, others.panic)
            ELSE Read(xref \o others.ps, TrailerFields(r.f.obj.Dict.m), "", r.ptr, FALSE)))

\* readLinearized(rs, doc), rs being at p
readLinearized(buf, p) ==
    Bind(readObject(buf, p, <<>>, TRUE), LAMBDA r :
        IF r.f.panic \/ r.f.err THEN Read(<<>>, NoFields, "object", r.ptr, r.f.panic)
        ELSE Bind(objectReadXRef(r.f.obj), LAMBDA x :
            IF x.panic \/ x.err THEN Read(<<>>, NoFields, "body", r.ptr, x.panic)
            ELSE Bind(readPrev(buf, r.f.obj, x.ps), LAMBDA o :
                     IF GetInt(r.f.obj.Dict.m, K.prev) <= 0 THEN [o EXCEPT !.ptr = r.ptr]
                     ELSE o)))

\* readClassic(rs, doc), the last minRead bytes of the file being its last
\* win cells
readClassic(buf, win) ==
    Bind(IF Len(buf) > win THEN win ELSE Len(buf), LAMBDA size :
    Bind(readTrailer(Section(buf, Len(buf) - size, size)), LAMBDA t :
        IF t.err = "trailer" THEN readLinearized(buf, seekStart(0, t.val))
        ELSE IF t.err # "" THEN Read(<<>>, NoFields, t.err, 0, FALSE)
        ELSE IF badSection(buf, t.val, Len(buf) - t.val)
        THEN Read(<<>>, NoFields, "", 0, TRUE)
        ELSE Bind(readXRef(Section(buf, t.val, Len(buf) - t.val)), LAMBDA x :
                 Read(x.ps, t.fields, IF x.err THEN "xref" ELSE "", 0, x.panic))))

\* Dict.Linearized
Linearized(m) == GetString(m, K.linearized) # <<>>

\* "%PDF-1."
Magic == <<"%", "P", "D", "F", "-", "1", ".">>

\* readPreamble(r), r being a Reader on the head of the file: the position
\* after the first object if it is a linearization dictionary, else 0
readPreamble(head) ==
    Bind(CellAt(head, 0), LAMBDA c :
        IF c.k # "text" \/ Len(c.s) <= Len(Magic) \/ SubSeq(c.s, 1, Len(Magic)) # Magic
           \/ c.s[Len(Magic) + 1] \notin {"0", "1", "2", "3", "4", "5", "6", "7"}
        THEN [lin |-> 0, err |-> TRUE, panic |-> FALSE]
        ELSE Bind(readObject(head, 1, <<>>, FALSE), LAMBDA r :
            IF ~r.f.err /\ ~r.f.panic /\ ~isZero(r.f.obj) /\ Linearized(r.f.obj.Dict.m)
            THEN [lin |-> r.ptr, err |-> FALSE, panic |-> FALSE]
            ELSE [lin |-> 0, err |-> r.f.err, panic |-> r.f.panic]))

\* md5 of the data x, as a term
md5Sum(x) == <<"md5", x>>

\* an RC4 pass over data with key, as a term
rc4Pass(key, data) == <<"rc4", key, data>>

\* the key with every byte XORed with i
xorKey(key, i) == <<"xor", key, i>>

\* the bytes a term stands for, as a string
bytesOf(term) == <<ToString(term)>>

\* byte(perm), byte(perm >> 8), byte(perm >> 16), byte(perm >> 24) of
\* perm = uint32(access), for an access of 32 bits: the low 32 bits of the
\* two's complement, taken with the flooring \div
permBytes(access) ==
    << access % 256, (access \div 256) % 256, (access \div 65536) % 256,
       (access \div 16777216) % 256 >>

\* the 50 rounds key = md5(key[:n]) of setupKey from the i-th on, the key
\* being <<"key", data hashed first, n, rounds done>>
RECURSIVE keyRounds(_, _)
keyRounds(key, i) ==
    IF i >= 50 THEN key ELSE keyRounds(<<"key", key[2], key[3], key[4] + 1>>, i + 1)

\* the 19 passes of setupKey with the key XORed with i, from the i-th on
RECURSIVE passLoop(_, _, _)
passLoop(key, final, i) ==
    IF i >= 20 THEN final ELSE passLoop(key, rc4Pass(xorKey(key, i), final), i + 1)

\* a check that takes every password
hasPrefixAlways(s, prefix) == TRUE

\* bytes.HasPrefix(s, prefix)
hasPrefix(s, prefix) == Len(s) >= Len(prefix) /\ SubSeq(s, 1, Len(prefix)) = prefix

\* what setupKey leaves: the Document, the error ("" for nil), the cursor,
\* whether it panicked
KeySetup(d, err, p, panic) == [doc |-> d, err |-> err, ptr |-> p, panic |-> panic]

\* Document.setupKey, the cursor being at p.  Without /Encrypt it returns at
\* once.  size / 8 truncates towards zero; d.fileid[0] panics without a file
\* id, key[:size/8] outside the 16 bytes of a sum, and rc4.NewCipher fails
\* on an empty key.
setupKey(d, buf, p) ==
    IF d.encrypt = <<>> THEN KeySetup(d, "", p, FALSE)
    ELSE Bind(getObjectWithOid(d, buf, p, d.encrypt, FALSE), LAMBDA o :
        IF o.panic \/ d.fileid = <<>> THEN KeySetup(d, "", o.ptr, TRUE)
        ELSE Bind(IF GetInt(o.obj.Dict.m, K.length) >= 0
                  THEN GetInt(o.obj.Dict.m, K.length) \div 8
                  ELSE 0 - ((0 - GetInt(o.obj.Dict.m, K.length)) \div 8), LAMBDA n :
            IF n < 0 \/ n > 16 THEN KeySetup(d, "", o.ptr, TRUE)
            ELSE IF n = 0 THEN KeySetup(d, "key size", o.ptr, FALSE)
            ELSE Bind(keyRounds(<<"key", << "padding", GetString(o.obj.Dict.m, K.o),
                                            permBytes(GetInt(o.obj.Dict.m, K.p)),
                                            d.fileid[1] >>, n, 0>>, 0), LAMBDA key :
                KeySetup([d EXCEPT !.decrypt = key],
                         IF hasPrefix(GetString(o.obj.Dict.m, K.u),
                                      bytesOf(passLoop(key,
                                                       rc4Pass(key, md5Sum(<<"padding", d.fileid[1]>>)),
                                                       1)))
                         THEN "" ELSE "invalid password",
                         o.ptr, FALSE))))

\* readFile up to the sort: the entries and fields read, or the error
readSections(buf, win) ==
    IF badSection(buf, 0, win) THEN Read(<<>>, NoFields, "", 0, TRUE)
    ELSE Bind(readPreamble(Section(buf, 0, win)), LAMBDA pre :
        IF pre.panic \/ pre.err THEN Read(<<>>, NoFields, "preamble", 0, pre.panic)
        ELSE IF pre.lin = 0 THEN readClassic(buf, win)
        ELSE readLinearized(buf, seekStart(0, pre.lin)))

\* the Document before Open
NoDoc == [open |-> FALSE]

\* readFile: what Open may return, the Document with the error ("" for nil)
readFileResult(buf, win) ==
    Bind(readSections(buf, win), LAMBDA r :
        IF r.panic \/ r.err # "" THEN { KeySetup(NoDoc, r.err, r.ptr, r.panic) }
        ELSE { setupKey(Document(x, r.fields.catalog, r.fields.info, r.fields.encrypt,
                                 r.fields.fileid, <<>>), buf, r.ptr) : x \in sortSlice(r.val) })

\* readFile: the Documents Open may return, none when it fails
readFile(buf, win) ==
    { o.doc : o \in { q \in readFileResult(buf, win) : q.err = "" /\ ~q.panic } }

-----------------------------------------------------------------------------
(* Values every specification gives the variables it does not use *)

NoRet == [op |-> "none"]

NoWalk == [pc |-> "idle"]

Idle(v) == v = <<>>

-----------------------------------------------------------------------------
(* Files of the model *)

\* the spelling of a name in a file: /Type for "type"
Cap(s) == ToUpper(<<s[1]>>) \o Tail(s)

\* "num 0 obj", a value, "endobj"
ObjCells(num, sv) == << HdrCell(num, 0, "obj"), ValCell(sv), LineCell("endobj") >>

\* "num 0 obj", a dictionary, "stream", the payload, "endstream", "endobj"
StreamCells(num, sv, payload) ==
    << HdrCell(num, 0, "obj"), ValCell(sv), LineCell("stream") >> \o payload
        \o << LineCell("endstream"), LineCell("endobj") >>

\* the InUse entries of the objects of a file, in file order
RECURSIVE HeaderPointers(_, _)
HeaderPointers(buf, i) ==
    IF i >= Len(buf) THEN <<>>
    ELSE (IF buf[i + 1].k = "hdr"
          THEN <<Pointer(OidOf(buf[i + 1].num, buf[i + 1].gen), <<>>, i)>> ELSE <<>>)
         \o HeaderPointers(buf, i + 1)

-----------------------------------------------------------------------------
(* Spec: the queries of an opened Document, one after the other.  The file *)
(* holds a pages tree with one Page (1/0, 2/0, 3/0), an info dictionary    *)
(* (4/0), the catalog (5/0), a metadata stream (6/0), the outlines (7/0)   *)
(* with two items (8/0, 9/0) kept in the object stream 10/0.  The          *)
(* Directory lacks the entries of the objects in arg; it has an entry      *)
(* (11/0) whose offset is not the start of an object, and one (12/0) in an *)
(* object stream the file does not have.  hist is the Document and the     *)
(* buffer as Open left them.                                               *)

DocDict(pairs) == SrcDict([i \in 1..Len(pairs) |-> <<Cap(pairs[i][1]), pairs[i][2]>>])

DocFile ==
    << TextCell(<<"%", "P", "D", "F", "-", "1", ".", "4">>) >>
    \o ObjCells(1, DocDict(<< <<K.type, SrcName(TypeName.Pages)>>, <<K.count, SrcInt(1)>>,
                              <<K.kids, SrcArr(<<SrcRef(2, 0)>>)>> >>))
    \o ObjCells(2, DocDict(<< <<K.type, SrcName(TypeName.Page)>>,
                              <<K.contents, SrcRef(3, 0)>> >>))
    \o StreamCells(3, DocDict(<< <<K.length, SrcInt(1)>> >>), <<ByteCell(3)>>)
    \o ObjCells(4, DocDict(<< <<K.title, SrcLit(<<"t">>)>>, <<K.pages, SrcInt(1)>> >>))
    \o ObjCells(5, DocDict(<< <<K.type, SrcName(TypeName.Catalog)>>, <<K.pages, SrcRef(1, 0)>>,
                              <<K.lang, SrcLit(<<"e", "n">>)>>,
                              <<K.metadata, SrcRef(6, 0)>>, <<K.outlines, SrcRef(7, 0)>> >>))
    \o StreamCells(6, DocDict(<< <<K.length, SrcInt(2)>> >>), <<ByteCell(6), ByteCell(7)>>)
    \o ObjCells(7, DocDict(<< <<K.first, SrcRef(8, 0)>>, <<K.last, SrcRef(9, 0)>> >>))
    \o StreamCells(10, DocDict(<< <<K.type, SrcName(TypeName.ObjStm)>>, <<K.first, SrcInt(4)>>,
                                  <<K.n, SrcInt(2)>>, <<K.length, SrcInt(6)>> >>),
                   << NumCell(8), NumCell(0), NumCell(9), NumCell(1),
                      ValCell(DocDict(<< <<K.title, SrcLit(<<"a">>)>>,
                                         <<K.next, SrcRef(9, 0)>> >>)),
                      ValCell(DocDict(<< <<K.title, SrcLit(<<"b">>)>> >>)) >>)

\* the entries a cross-reference section of DocFile holds, in file order
DocPointers ==
    HeaderPointers(DocFile, 0)
    \o << Pointer(OidOf(8, 0), OidOf(10, 0), 0), Pointer(OidOf(9, 0), OidOf(10, 0), 1),
          Pointer(OidOf(11, 0), <<>>, 2), Pointer(OidOf(12, 0), OidOf(13, 0), 0) >>

\* the Oids callers ask for: a stream, the catalog, an embedded object and
\* its owner, the two entries that lead nowhere, an Oid of no entry, and ""
DocOids == { OidOf(n, 0) : n \in {3, 5, 8, 10, 11, 12, 13} } \cup { <<>> }

\* objects whose entries may be missing
Droppable == { OidOf(n, 0) : n \in {1, 4, 5, 6, 7, 10} }

\* oid is not in the Directory
Absent(oid) == \A i \in 1..Len(doc.xref) : doc.xref[i].Oid # oid

\* the result of a call, as the caller sees it, with whether the call before
\* it gave something
Called(op, a, val, panic, ok) ==
    [ op |-> op, a |-> a, val |-> val, panic |-> panic, ok |-> ok,
      prevOk |-> IF ret.op = "none" THEN TRUE ELSE ret.ok ]

\* the cursor is not at the offset of the entry of oid
Away(oid) == \A i \in 1..Len(doc.xref) : doc.xref[i].Oid = oid => doc.xref[i].Offset # ptr

Init ==
    /\ arg \in { S \in SUBSET Droppable : Cardinality(S) <= MaxAbsent }
    /\ file = DocFile
    /\ doc \in { Document(x, OidOf(5, 0), OidOf(4, 0), <<>>, <<>>, <<>>) :
                   x \in sortSlice(SelectSeq(DocPointers, LAMBDA q : q.Oid \notin arg)) }
    /\ ptr = 0
    /\ ret = NoRet
    /\ walk = NoWalk
    /\ hist = [doc |-> doc, file |-> file]
    /\ thr = <<>>

\* no Walk is under way
NotWalking == walk.pc \in {"idle", "returned"}

\* a caller resolves oid
Get(oid, full) ==
    /\ NotWalking
    /\ \E r \in {getObjectWithOid(doc, file, ptr, oid, full)} :
          /\ ret' = Called("get", [oid |-> oid, full |-> full, away |-> Away(oid)],
                           r.obj, r.panic, ~isZero(r.obj))
          /\ ptr' = r.ptr
    /\ walk' = NoWalk
    /\ UNCHANGED <<file, doc, arg, thr, hist>>

\* a caller asks for the number of pages
CallGetCount ==
    /\ NotWalking
    /\ \E r \in {GetCount(doc, file, ptr)} :
          /\ ret' = Called("GetCount", <<>>, r.val, r.panic, r.val # 0)
          /\ ptr' = r.ptr
    /\ walk' = NoWalk
    /\ UNCHANGED <<file, doc, arg, thr, hist>>

\* a caller asks for page n
CallGetPage(n) ==
    /\ NotWalking
    /\ \E r \in {GetPage(doc, file, ptr, n)} :
          /\ ret' = Called("GetPage", n, [body |-> r.body, err |-> r.err], r.panic, r.err = "")
          /\ ptr' = r.ptr
    /\ walk' = NoWalk
    /\ UNCHANGED <<file, doc, arg, thr, hist>>

\* a caller asks for the language
CallGetLang ==
    /\ NotWalking
    /\ \E r \in {GetLang(doc, file, ptr)} :
          /\ ret' = Called("GetLang", <<>>, r.val, r.panic, r.val # <<>>)
          /\ ptr' = r.ptr
    /\ walk' = NoWalk
    /\ UNCHANGED <<file, doc, arg, thr, hist>>

\* a caller asks for the outlines
CallGetOutlines ==
    /\ NotWalking
    /\ \E r \in {GetOutlines(doc, file, ptr)} :
          /\ ret' = Called("GetOutlines", <<>>, r.val, r.panic, r.val # <<>>)
          /\ ptr' = r.ptr
    /\ walk' = NoWalk
    /\ UNCHANGED <<file, doc, arg, thr, hist>>

\* a caller asks for the metadata
CallGetDocumentMetadata ==
    /\ NotWalking
    /\ \E r \in {GetDocumentMetadata(doc, file, ptr)} :
          /\ ret' = Called("GetDocumentMetadata", <<>>, r.val, r.panic, r.val # <<>>)
          /\ ptr' = r.ptr
    /\ walk' = NoWalk
    /\ UNCHANGED <<file, doc, arg, thr, hist>>

\* a caller asks for the document information
CallGetDocumentInfo ==
    /\ NotWalking
    /\ \E r \in {GetDocumentInfo(doc, file, ptr)} :
          /\ ret' = Called("GetDocumentInfo", <<>>, r.val, r.panic, r.val # ZeroFileInfo)
          /\ ptr' = r.ptr
    /\ walk' = NoWalk
    /\ UNCHANGED <<file, doc, arg, thr, hist>>

\* a caller asks for the version
CallGetVersion ==
    /\ NotWalking
    /\ \E r \in {GetVersion(doc, file, ptr)} :
          /\ ret' = Called("GetVersion", <<>>, r.val, r.panic, r.val # <<>>)
          /\ ptr' = r.ptr
    /\ walk' = NoWalk
    /\ UNCHANGED <<file, doc, arg, thr, hist>>

\* a Walk that skips no entry
walkSkipsNone(x) == FALSE

\* the entries Walk passes over: if x.isEmbed() { continue }
walkSkips(x) == isEmbed(x)

\* a caller starts Walk; walk.i counts the entries the loop is done with,
\* walk.log lists the calls of the callback
WalkBegin ==
    /\ NotWalking
    /\ walk' = [pc |-> "loop", i |-> 0, log |-> <<>>]
    /\ ret' = [op |-> "Walk", val |-> "running", panic |-> FALSE, ok |-> TRUE]
    /\ UNCHANGED <<file, ptr, doc, arg, thr, hist>>

\* one iteration of Walk's loop; the callback answers goon
WalkStep(goon) ==
    /\ walk.pc = "loop"
    /\ walk.i < Len(doc.xref)
    /\ IF walkSkips(doc.xref[walk.i + 1])
       THEN /\ goon
            /\ walk' = [walk EXCEPT !.i = walk.i + 1]
            /\ ptr' = ptr
       ELSE \E r \in {getObjectWithOid(doc, file, ptr, doc.xref[walk.i + 1].Oid, TRUE)} :
               /\ ptr' = r.ptr
               /\ IF isZero(r.obj)
                  THEN /\ goon
                       /\ walk' = [walk EXCEPT !.i = walk.i + 1]
                  ELSE walk' = [ pc |-> IF goon THEN "loop" ELSE "break",
                                 i |-> walk.i + 1,
                                 log |-> Append(walk.log,
                                                [i |-> walk.i, obj |-> r.obj, goon |-> goon]) ]
    /\ UNCHANGED <<file, doc, arg, ret, thr, hist>>

\* Walk returns nil, the loop being over or left
WalkReturn ==
    /\ \/ walk.pc = "break"
       \/ walk.pc = "loop" /\ walk.i >= Len(doc.xref)
    /\ walk' = [walk EXCEPT !.pc = "returned"]
    /\ ret' = [ret EXCEPT !.val = "nil"]
    /\ UNCHANGED <<file, ptr, doc, arg, thr, hist>>

Next ==
    \/ \E oid \in DocOids, full \in BOOLEAN : Get(oid, full)
    \/ CallGetCount
    \/ \E n \in 1..2 : CallGetPage(n)
    \/ CallGetLang
    \/ CallGetOutlines
    \/ CallGetDocumentMetadata
    \/ CallGetDocumentInfo
    \/ CallGetVersion
    \/ WalkBegin
    \/ \E goon \in BOOLEAN : WalkStep(goon)
    \/ WalkReturn

Spec == Init /\ [][Next]_vars

\* C2: resolution is idempotent and changes no Document state.  Whatever
\* queries ran before, getObjectWithOid(oid, full) returns the Object it
\* returns right after Open, and after every query the Directory, the
\* trailer-derived fields, the document key and the bytes of the buffer are
\* those Open left.
C2_ResolutionIdempotent ==
    /\ doc = hist.doc
    /\ file = hist.file
    /\ ret.op = "get" =>
          Bind(getObjectWithOid(hist.doc, hist.file, 0, ret.a.oid, ret.a.full), LAMBDA r :
              ret.val = r.obj /\ ret.panic = r.panic)

\* a stream object was resolved in full, the cursor being elsewhere, after a
\* query that gave nothing
C2_Witness ==
    /\ ret.op = "get"
    /\ ret.a.full
    /\ ret.a.away
    /\ ret.val.Content # <<>>
    /\ ~ret.prevOk

\* the Oid the catalog names under key, "" without a catalog
NamedByCatalog(key) ==
    Bind(getCatalog(doc, file, 0), LAMBDA c :
        IF isZero(c.obj) THEN <<>> ELSE GetString(c.obj.Dict.m, key))

-----------------------------------------------------------------------------
(* SpecRace: two goroutines query one Document.  The Document has one      *)
(* Reader and the Reader one cursor; nothing orders the goroutines, so the *)
(* reads and seeks of the two calls interleave.  arg is the pair of calls, *)
(* thr[t] the call of goroutine t: what it asked, where it stands, the     *)
(* frame of its readObject, the entry it has yet to take from an object    *)
(* stream, and its result.                                                 *)

RaceQueries ==
    { [op |-> "get", oid |-> OidOf(5, 0), full |-> FALSE],
      [op |-> "get", oid |-> OidOf(3, 0), full |-> TRUE],
      [op |-> "get", oid |-> OidOf(8, 0), full |-> FALSE],
      [op |-> "readVersion", oid |-> <<>>, full |-> FALSE] }

Goroutine(q, st, f, want, res) == [q |-> q, st |-> st, f |-> f, want |-> want, res |-> res]

\* the frame of a call that reads nothing yet
NoFrame == Frame("done", <<>>, FALSE, ZeroObject, FALSE, FALSE)

\* the entry of oid in the Directory, as getObjectWithOid finds it
entryOf(d, oid) ==
    Bind(searchLoop(d.xref, oid, 0, Len(d.xref)), LAMBDA i :
        IF oid # <<>> /\ found(d.xref, i, oid) THEN <<d.xref[i + 1]>> ELSE <<>>)

\* the key getObjectWithOid reads oid with
keyFor(d, oid) == IF oid # d.encrypt THEN d.decrypt ELSE <<>>

\* a call up to and with its first Seek: the goroutine after it, and the
\* offset it seeks to, if it seeks
raceStart(d, q) ==
    IF q.op = "readVersion"
    THEN [g |-> Goroutine(q, "reading", [NoFrame EXCEPT !.pc = "version"], <<>>, <<>>),
          seek |-> <<0>>]
    ELSE Bind(entryOf(d, q.oid), LAMBDA e :
        IF e = <<>> THEN [g |-> Goroutine(q, "done", NoFrame, <<>>, ZeroObject), seek |-> <<>>]
        ELSE IF ~isEmbed(e[1])
        THEN [g |-> Goroutine(q, "reading",
                              Frame("header", keyFor(d, q.oid), q.full, ZeroObject, FALSE, FALSE),
                              <<>>, <<>>),
              seek |-> <<e[1].Offset>>]
        ELSE Bind(entryOf(d, e[1].Owner), LAMBDA o :
            IF o = <<>> \/ isEmbed(o[1])
            THEN [g |-> Goroutine(q, "done", NoFrame, <<>>, ZeroObject), seek |-> <<>>]
            ELSE [g |-> Goroutine(q, "reading",
                                  Frame("header", keyFor(d, e[1].Owner), TRUE,
                                        ZeroObject, FALSE, FALSE),
                                  e, <<>>),
                  seek |-> <<o[1].Offset>>]))

\* the goroutine after the read that made its frame f
raceAfter(g, f) ==
    IF f.pc # "done" THEN [g EXCEPT !.f = f]
    ELSE [g EXCEPT !.f = f, !.st = "done",
                   !.res = IF g.want = <<>> THEN f.obj
                           ELSE getEmbeddedObject(f.obj, g.want[1].Oid, g.want[1].Offset).obj]

InitRace ==
    /\ arg \in RaceQueries \X RaceQueries
    /\ file = DocFile
    /\ doc \in { Document(x, OidOf(5, 0), OidOf(4, 0), <<>>, <<>>, <<>>) :
                   x \in sortSlice(DocPointers) }
    /\ ptr = 0
    /\ thr = [t \in 1..2 |-> Goroutine(arg[t], "ready", NoFrame, <<>>, <<>>)]
    /\ ret = NoRet /\ walk = NoWalk /\ hist = NoRet

\* goroutine t enters its call and seeks
RaceBegin(t) ==
    /\ thr[t].st = "ready"
    /\ \E s \in {raceStart(doc, thr[t].q)} :
          /\ thr' = [thr EXCEPT ![t] = s.g]
          /\ ptr' = IF s.seek = <<>> THEN ptr ELSE seekStart(ptr, s.seek[1])
    /\ UNCHANGED <<file, doc, arg, ret, walk, hist>>

\* goroutine t does its next read at the cursor
RaceRead(t) ==
    /\ thr[t].st = "reading"
    /\ IF thr[t].f.pc = "version"
       THEN /\ thr' = [thr EXCEPT ![t].st = "done", ![t].f = NoFrame,
                                  ![t].res = Bind(CellAt(file, ptr), LAMBDA c :
                                                 IF c.k = "text" THEN c.s ELSE <<>>)]
            /\ ptr' = After(file, ptr)
       ELSE \E s \in {readStep(file, ptr, thr[t].f)} :
               /\ thr' = [thr EXCEPT ![t] = raceAfter(thr[t], s.f)]
               /\ ptr' = s.ptr
    /\ UNCHANGED <<file, doc, arg, ret, walk, hist>>

NextRace == \E t \in 1..2 : RaceBegin(t) \/ RaceRead(t)

SpecRace == InitRace /\ [][NextRace]_vars

\* what the call q returns when it runs alone
Alone(q) ==
    IF q.op = "readVersion" THEN readVersion(file).val
    ELSE getObjectWithOid(doc, file, 0, q.oid, q.full).obj

\* C3: a Document is safe for concurrent read-only queries.  Two calls whose
\* steps interleave in any order each return what they return alone.
C3_ConcurrentQueriesSafe ==
    \A t \in 1..2 : thr[t].st = "done" => thr[t].res = Alone(thr[t].q)

-----------------------------------------------------------------------------
(* SpecXRef: readXRef on classic xref tables.  arg is a table: its         *)
(* subsections, each the number of its first object and its records; a     *)
(* record is its flag and its generation, and its offset is ten times its  *)
(* place in the table.                                                     *)

XRefRecords == { [typ |-> "n", rev |-> 0], [typ |-> "n", rev |-> 1], [typ |-> "f", rev |-> 0] }

XRefSubsections ==
    { [first |-> f, recs |-> r] :
        f \in {0, 3}, r \in UNION { [1..n -> XRefRecords] : n \in 1..MaxRecs } }

\* tables whose subsections are apart and in ascending order
XRefTables(subs) ==
    { t \in UNION { [1..n -> XRefSubsections] : n \in 1..subs } :
        \A k \in 1..(Len(t) - 1) : t[k].first + Len(t[k].recs) <= t[k + 1].first }

\* the cells of the subsections of a table from the k-th on, base records
\* coming before them
RECURSIVE SubsectionCells(_, _, _)
SubsectionCells(t, k, base) ==
    IF k > Len(t) THEN <<>>
    ELSE <<SubCell(t[k].first, Len(t[k].recs))>>
         \o [i \in 1..Len(t[k].recs) |->
                RecCell(10 * (base + i), t[k].recs[i].rev, t[k].recs[i].typ)]
         \o SubsectionCells(t, k + 1, base + Len(t[k].recs))

TableCells(t) == <<LineCell("xref")>> \o SubsectionCells(t, 1, 0) \o <<LineCell("trailer")>>

\* the Pointers a table stands for: one per record flagged n
RECURSIVE TablePointers(_, _, _)
TablePointers(t, k, base) ==
    IF k > Len(t) THEN {}
    ELSE { Pointer(OidOf(t[k].first + i - 1, t[k].recs[i].rev), <<>>, 10 * (base + i)) :
             i \in { j \in 1..Len(t[k].recs) : t[k].recs[j].typ = "n" } }
         \cup TablePointers(t, k + 1, base + Len(t[k].recs))

InitXRef ==
    /\ arg \in XRefTables(MaxSubs)
    /\ file = TableCells(arg)
    /\ ret = NoRet
    /\ ptr = 0 /\ doc = NoDoc /\ walk = NoWalk /\ thr = <<>> /\ hist = NoRet

\* the table is read
XRefRead ==
    /\ ret.op = "none"
    /\ \E r \in {readXRef(file)} :
          ret' = [op |-> "readXRef", ps |-> r.ps, err |-> r.err, panic |-> r.panic]
    /\ UNCHANGED <<file, ptr, doc, arg, walk, thr, hist>>

NextXRef == XRefRead

SpecXRef == InitXRef /\ [][NextXRef]_vars

\* C8: a classic xref table with one or more subsections is read completely.
\* Reading succeeds, and the Pointers read are exactly those of the records
\* flagged n of every subsection, each with object number first + i, the
\* record's generation and the record's offset.
C8_XRefTableReadCompletely ==
    ret.op = "readXRef" =>
        /\ ~ret.err /\ ~ret.panic
        /\ { ret.ps[i] : i \in 1..Len(ret.ps) } = TablePointers(arg, 1, 0)

-----------------------------------------------------------------------------
(* SpecXRefStream: Object.readXRef on cross-reference streams.  arg is a   *)
(* stream: its /Index (none, one pair or more) and its records, fields of  *)
(* the widths 1, 2 and 1.                                                  *)

StreamW == <<1, 2, 1>>

StreamRecords == { <<0, 0, 0>>, <<1, 300, 1>>, <<2, 7, 1>> }

\* the /Index arrays: first objects 0, 5, 10, ... and counts
StreamIndexes(subs) ==
    UNION { { [k \in 1..(2 * n) |-> IF k % 2 = 1 THEN 5 * (k \div 2) ELSE c[k \div 2]] :
                c \in [1..n -> 1..MaxRecs] } : n \in 1..subs }

RECURSIVE SumCounts(_)
SumCounts(ix) == IF Len(ix) < 2 THEN 0 ELSE ix[2] + SumCounts(SubSeq(ix, 3, Len(ix)))

XRefStreams(subs) ==
    UNION { { [index |-> ix, recs |-> r] : r \in [1..SumCounts(ix) -> StreamRecords] } :
            ix \in StreamIndexes(subs) }
    \cup UNION { { [index |-> <<>>, recs |-> r] : r \in [1..n -> StreamRecords] } :
                 n \in 1..MaxRecs }

\* the bytes of a field of width w, the highest first
RECURSIVE BigEndian(_, _)
BigEndian(v, w) ==
    IF w = 0 THEN <<>> ELSE BigEndian(v \div 256, w - 1) \o <<ByteCell(v % 256)>>

RECURSIVE RecordBytes(_, _)
RecordBytes(recs, k) ==
    IF k > Len(recs) THEN <<>>
    ELSE BigEndian(recs[k][1], StreamW[1]) \o BigEndian(recs[k][2], StreamW[2])
         \o BigEndian(recs[k][3], StreamW[3]) \o RecordBytes(recs, k + 1)

IntArray(a) == SrcArr([i \in 1..Len(a) |-> SrcInt(a[i])])

\* the stream object as readObject returns it
XRefStreamObject(x) ==
    [ Oid |-> OidOf(9, 0),
      Dict |-> MkDict(parseValue(
                  DocDict(<< <<K.w, IntArray(StreamW)>>, <<K.size, SrcInt(Len(x.recs))>> >>
                          \o IF x.index = <<>> THEN <<>>
                             ELSE << <<K.index, IntArray(x.index)>> >>), <<>>).v.v),
      Data |-> Nil,
      Content |-> RecordBytes(x.recs, 1) ]

\* the Pointers a stream stands for: the records of the pairs of ix from the
\* k-th pair on, base records coming before them
RECURSIVE StreamPointersOf(_, _, _, _)
StreamPointersOf(recs, ix, k, base) ==
    IF 2 * k > Len(ix) THEN {}
    ELSE { IF recs[base + j + 1][1] = 1
           THEN Pointer(OidOf(ix[2 * k - 1] + j, recs[base + j + 1][3]), <<>>,
                        recs[base + j + 1][2])
           ELSE Pointer(OidOf(ix[2 * k - 1] + j, 0), OidOf(recs[base + j + 1][2], 0),
                        recs[base + j + 1][3]) :
             j \in { i \in 0..(ix[2 * k] - 1) : recs[base + i + 1][1] # 0 } }
         \cup StreamPointersOf(recs, ix, k + 1, base + ix[2 * k])

InitXRefStream ==
    /\ arg \in XRefStreams(MaxSubs)
    /\ file = RecordBytes(arg.recs, 1)
    /\ ret = NoRet
    /\ ptr = 0 /\ doc = NoDoc /\ walk = NoWalk /\ thr = <<>> /\ hist = NoRet

\* the stream is decoded
XRefStreamRead ==
    /\ ret.op = "none"
    /\ \E r \in {objectReadXRef(XRefStreamObject(arg))} :
          ret' = [op |-> "readXRef", ps |-> r.ps, err |-> r.err, panic |-> r.panic]
    /\ UNCHANGED <<file, ptr, doc, arg, walk, thr, hist>>

NextXRefStream == XRefStreamRead

SpecXRefStream == InitXRefStream /\ [][NextXRefStream]_vars

\* C9: a cross-reference stream is decoded over all of its /Index pairs.  For
\* every pair (first, count), by default (0, size), and every j below count
\* the next record gives for object first + j no Pointer when its type is 0,
\* an InUse Pointer (offset f1, generation f2) when 1, an InStream Pointer
\* (owner f1/0, index f2, generation 0) when 2; the result is exactly these.
C9_XRefStreamAllIndexPairs ==
    ret.op = "readXRef" =>
        /\ ~ret.err /\ ~ret.panic
        /\ { ret.ps[i] : i \in 1..Len(ret.ps) } =
              StreamPointersOf(arg.recs,
                               IF arg.index = <<>> THEN <<0, Len(arg.recs)>> ELSE arg.index,
                               1, 0)

-----------------------------------------------------------------------------
(* SpecOpen: Open on files with revisions.  arg describes a file of at     *)
(* least MinRead bytes: its kind (classic tables with trailers, or         *)
(* cross-reference streams), for every revision, oldest first, the objects *)
(* it defines, and win, the number of cells in MinRead bytes.  Revision r  *)
(* writes object n as "n 0 obj r endobj", then its cross-reference section *)
(* with one subsection from its lowest to its highest object, free records *)
(* in between, and /Prev naming the section of revision r-1.  A file       *)
(* without eof was cut before its last %%EOF.                              *)

\* the cells of a section of a revision that defines the set of objects S
SectionLen(kind, S) ==
    Bind((CHOOSE n \in S : \A m \in S : m <= n) - (CHOOSE n \in S : \A m \in S : n <= m) + 1,
         LAMBDA count : IF kind = "classic" THEN count + 4 ELSE 3 * count + 6)

\* where revision r starts, where its section starts, where its object n is
RECURSIVE RevStart(_, _)
RevStart(a, r) ==
    IF r = 1 THEN 1
    ELSE RevStart(a, r - 1) + 3 * Cardinality(a.secs[r - 1]) + SectionLen(a.kind, a.secs[r - 1])

XRefOffset(a, r) == RevStart(a, r) + 3 * Cardinality(a.secs[r])

ObjOffset(a, r, n) == RevStart(a, r) + 3 * Cardinality({ m \in a.secs[r] : m < n })

\* concatenation of F(lo), ..., F(hi)
RECURSIVE concatCells(_, _, _)
concatCells(F(_), lo, hi) == IF lo > hi THEN <<>> ELSE F(lo) \o concatCells(F, lo + 1, hi)

\* the dictionary of the section of revision r, with the pairs more
SectionDict(a, r, more) ==
    DocDict(<< <<K.root, SrcRef(1, 0)>>, <<K.size, SrcInt(MaxObjs + 1)>> >>
            \o (IF r > 1 THEN << <<K.prev, SrcInt(XRefOffset(a, r - 1))>> >> ELSE <<>>)
            \o more)

ClassicSection(a, r, lo, hi) ==
    << LineCell("xref"), SubCell(lo, hi - lo + 1) >>
    \o [i \in 1..(hi - lo + 1) |->
           IF lo + i - 1 \in a.secs[r] THEN RecCell(ObjOffset(a, r, lo + i - 1), 0, "n")
           ELSE RecCell(0, 0, "f")]
    \o << TrailerCell(SectionDict(a, r, <<>>)), StartxrefCell(XRefOffset(a, r), r < Len(a.secs) \/ a.eof) >>

StreamSection(a, r, lo, hi) ==
    StreamCells(MaxObjs + 1 + r,
                SectionDict(a, r, << <<K.w, SrcArr(<<SrcInt(1), SrcInt(1), SrcInt(1)>>)>>,
                                     <<K.index, SrcArr(<<SrcInt(lo), SrcInt(hi - lo + 1)>>)>>,
                                     <<K.length, SrcInt(3 * (hi - lo + 1))>> >>),
                concatCells(LAMBDA n : IF n \in a.secs[r]
                                       THEN <<ByteCell(1), ByteCell(ObjOffset(a, r, n)), ByteCell(0)>>
                                       ELSE <<ByteCell(0), ByteCell(0), ByteCell(0)>>,
                            lo, hi))
    \o << StartxrefCell(XRefOffset(a, r), r < Len(a.secs) \/ a.eof) >>

Revision(a, r) ==
    concatCells(LAMBDA n : IF n \in a.secs[r] THEN ObjCells(n, SrcInt(r)) ELSE <<>>, 1, MaxObjs)
    \o Bind(CHOOSE n \in a.secs[r] : \A m \in a.secs[r] : n <= m, LAMBDA lo :
       Bind(CHOOSE n \in a.secs[r] : \A m \in a.secs[r] : m <= n, LAMBDA hi :
           IF a.kind = "classic" THEN ClassicSection(a, r, lo, hi)
           ELSE StreamSection(a, r, lo, hi)))

RevisionFile(a) ==
    << TextCell(Magic \o <<"4">>) >> \o concatCells(LAMBDA r : Revision(a, r), 1, Len(a.secs))

\* the revisions that define object n
RevsOf(a, n) == { r \in 1..Len(a.secs) : n \in a.secs[r] }

\* the newest revision that defines object n
Newest(a, n) == CHOOSE r \in RevsOf(a, n) : \A q \in RevsOf(a, n) : q <= r

\* for every object of the file, the entry of the newest section defining it
NewestPointers(a) ==
    { Pointer(OidOf(n, 0), <<>>, ObjOffset(a, Newest(a, n), n)) :
        n \in { m \in 1..MaxObjs : RevsOf(a, m) # {} } }

RevisionFiles ==
    { [kind |-> k, secs |-> q, win |-> 4, eof |-> e] :
        k \in {"classic", "stream"}, e \in BOOLEAN,
        q \in UNION { [1..n -> (SUBSET (1..MaxObjs)) \ {{}}] : n \in 1..MaxSections } }

InitOpen ==
    /\ arg \in RevisionFiles
    /\ file = RevisionFile(arg)
    /\ doc = NoDoc
    /\ ptr = 0
    /\ ret = NoRet
    /\ walk = NoWalk /\ thr = <<>> /\ hist = NoRet

\* Open returns a Document
OpenFile ==
    /\ ret.op = "none"
    /\ doc' \in readFile(file, arg.win)
    /\ ptr' = readSections(file, arg.win).ptr
    /\ ret' = [op |-> "Open", err |-> FALSE]
    /\ UNCHANGED <<file, arg, walk, thr, hist>>

\* Open fails
OpenFails ==
    /\ ret.op = "none"
    /\ readFile(file, arg.win) = {}
    /\ ret' = [op |-> "Open", err |-> TRUE]
    /\ UNCHANGED <<file, ptr, doc, arg, walk, thr, hist>>

\* a caller resolves object n of the opened Document
OpenGet(n) ==
    /\ doc.open
    /\ \E r \in {getObjectWithOid(doc, file, ptr, OidOf(n, 0), FALSE)} :
          /\ ret' = [op |-> "get", n |-> n, val |-> r.obj, panic |-> r.panic]
          /\ ptr' = r.ptr
    /\ UNCHANGED <<file, doc, arg, walk, thr, hist>>

NextOpen ==
    \/ OpenFile
    \/ OpenFails
    \/ \E n \in 1..MaxObjs : OpenGet(n)

SpecOpen == InitOpen /\ [][NextOpen]_vars

\* C6: after Open the Directory holds at most one Pointer per Oid, and an Oid
\* defined in the newest section and in an earlier one resolves to the newest
\* revision of the object, whatever the order the sort leaves equal Oids in.
C6_OnePointerPerOid ==
    doc.open =>
        /\ \A i, j \in 1..Len(doc.xref) : doc.xref[i].Oid = doc.xref[j].Oid => i = j
        /\ (ret.op = "get" /\ ret.n \in arg.secs[Len(arg.secs)]) =>
              ret.val.Data = VInt(Len(arg.secs))

\* C7: Open follows /Prev from the newest section, section after section, for
\* classic tables and for cross-reference streams: Open succeeds, and every
\* object's entry in the newest section that defines it is in the Directory.
C7_PrevChainFollowed ==
    (ret.op # "none" /\ arg.eof) =>
        /\ doc.open
        /\ \A q \in NewestPointers(arg) : \E i \in 1..Len(doc.xref) : doc.xref[i] = q

-----------------------------------------------------------------------------
(* SpecDict: dictionaries produced by the value parser, and their          *)
(* accessors.  arg is the source dictionary, hist the parsed one.          *)

\* names that differ in case only, and one that does not
DictNames ==
    { <<"a", "b">>, <<"A", "b">>, <<"A", "B">>, <<"k", "1">> }

DictSrcValues ==
    { SrcInt(7), SrcLit(<<"x">>), SrcArr(<<SrcInt(1)>>),
      SrcDict(<<<<(<<"N">>), SrcInt(2)>>>>) }

DictSources ==
    UNION { [1..n -> DictNames \X DictSrcValues] : n \in 0..MaxPairs }

\* what the accessors return for one key
Lookup(d, key) ==
    [ has |-> Has(d, key), str |-> GetString(d, key), int |-> GetInt(d, key),
      dict |-> GetDict(d, key), arr |-> GetArray(d, key) ]

InitDict ==
    /\ arg \in DictSources
    /\ hist = [op |-> "none"]
    /\ ret = NoRet
    /\ file = <<>> /\ ptr = 0 /\ doc = NoDoc /\ walk = NoWalk /\ thr = <<>>

\* the parser reads the source dictionary
DictParse ==
    /\ hist.op = "none"
    /\ hist' = [op |-> "parsed", res |-> parseDict(arg, <<>>)]
    /\ UNCHANGED <<file, ptr, doc, arg, ret, walk, thr>>

\* a caller looks a name up, as written, lowercased and uppercased
DictLookup(key) ==
    /\ hist.op = "parsed"
    /\ ret' = [ op |-> "lookup", key |-> key,
                asis |-> Lookup(hist.res.v.v, key),
                lower |-> Lookup(hist.res.v.v, ToLower(key)),
                upper |-> Lookup(hist.res.v.v, ToUpper(key)) ]
    /\ UNCHANGED <<file, ptr, doc, arg, walk, thr, hist>>

NextDict ==
    \/ DictParse
    \/ \E key \in DictNames : DictLookup(key)

SpecDict == InitDict /\ [][NextDict]_vars

\* the value of the last pair of the source whose name equals key up to case
RECURSIVE LastValueOf(_, _)
LastValueOf(pairs, key) ==
    IF pairs = <<>> THEN Nil
    ELSE IF ToLower(pairs[Len(pairs)][1]) = ToLower(key)
         THEN parseValue(pairs[Len(pairs)][2], <<>>).v
         ELSE LastValueOf(SubSeq(pairs, 1, Len(pairs) - 1), key)

-----------------------------------------------------------------------------
(* SpecPages: GetPage on pages trees.  arg is a tree: nodes 1..n, node 1   *)
(* the root, par[i] the parent of node i.  A node without kids is a Page,  *)
(* a node with kids a Pages node whose /Count is the number of Pages below *)
(* it.  Node i is object "i/0"; Page i has the one-byte content stream     *)
(* "n+i/0" holding the byte i.  hist is the result of the GetPage call     *)
(* before the last one.                                                    *)

PageTrees ==
    UNION { { [n |-> N, par |-> f] :
                f \in { g \in [2..N -> 1..(N - 1)] : \A i \in 2..N : g[i] < i } } :
            N \in 2..MaxNodes }

RECURSIVE kidsFrom(_, _, _)
kidsFrom(t, i, j) ==
    IF j > t.n THEN <<>>
    ELSE (IF t.par[j] = i THEN <<j>> ELSE <<>>) \o kidsFrom(t, i, j + 1)

\* the kids of node i, in /Kids order
KidsOf(t, i) == kidsFrom(t, i, 2)

\* the Pages below node i, in depth-first /Kids order
RECURSIVE LeavesOf(_, _)
RECURSIVE leavesOfAll(_, _)
leavesOfAll(t, nodes) ==
    IF nodes = <<>> THEN <<>> ELSE LeavesOf(t, Head(nodes)) \o leavesOfAll(t, Tail(nodes))

LeavesOf(t, i) ==
    Bind(KidsOf(t, i), LAMBDA kids : IF kids = <<>> THEN <<i>> ELSE leavesOfAll(t, kids))

TreeNodeDict(t, i) ==
    Bind(KidsOf(t, i), LAMBDA kids :
        IF kids = <<>>
        THEN SrcDict(<< <<Cap(K.type), SrcName(TypeName.Page)>>,
                        <<Cap(K.contents), SrcRef(t.n + i, 0)>> >>)
        ELSE SrcDict(<< <<Cap(K.type), SrcName(TypeName.Pages)>>,
                        <<Cap(K.count), SrcInt(Len(LeavesOf(t, i)))>>,
                        <<Cap(K.kids), SrcArr([k \in 1..Len(kids) |-> SrcRef(kids[k], 0)])>> >>))

TreeNodeCells(t, i) == ObjCells(i, TreeNodeDict(t, i))

TreeStreamCells(t, i) ==
    StreamCells(t.n + i, SrcDict(<< <<Cap(K.length), SrcInt(1)>> >>), <<ByteCell(i)>>)

TreeCatalogCells(t) ==
    ObjCells(2 * t.n + 1, SrcDict(<< <<Cap(K.type), SrcName(TypeName.Catalog)>>,
                                     <<Cap(K.pages), SrcRef(1, 0)>> >>))

TreeFile(t) ==
    LET nodes(i) == TreeNodeCells(t, i)
        streams(i) == TreeStreamCells(t, i)
    IN  concatCells(nodes, 1, t.n) \o concatCells(streams, 1, t.n) \o TreeCatalogCells(t)

InitPages ==
    /\ arg \in PageTrees
    /\ file = TreeFile(arg)
    /\ doc \in { Document(x, OidOf(2 * arg.n + 1, 0), <<>>, <<>>, <<>>, <<>>) :
                   x \in sortSlice(HeaderPointers(file, 0)) }
    /\ ptr = 0
    /\ ret = NoRet
    /\ hist = NoRet
    /\ walk = NoWalk /\ thr = <<>>

\* a caller asks for the number of pages
PagesGetCount ==
    /\ \E r \in {GetCount(doc, file, ptr)} :
            /\ ret' = [op |-> "GetCount", val |-> r.val, panic |-> r.panic]
            /\ ptr' = r.ptr
    /\ UNCHANGED <<file, doc, arg, walk, thr, hist>>

\* a caller asks for page n
PagesGetPage(n) ==
    /\ \E r \in {GetPage(doc, file, ptr, n)} :
            /\ ret' = [ op |-> "GetPage", n |-> n, body |-> r.body, err |-> r.err,
                        page |-> r.page.Oid, panic |-> r.panic ]
            /\ ptr' = r.ptr
    /\ hist' = IF ret.op = "GetPage" THEN ret ELSE hist
    /\ UNCHANGED <<file, doc, arg, walk, thr>>

NextPages ==
    \/ PagesGetCount
    \/ \E n \in 1..MaxNodes : PagesGetPage(n)

SpecPages == InitPages /\ [][NextPages]_vars

\* C1: with /Count values that equal the number of Pages below each node,
\* GetPage(n) for every n in [1, GetCount()] resolves to the n-th Page in
\* depth-first /Kids order and returns its content: it does not report an
\* error, does not index outside a /Kids array, and two different n do not
\* resolve to the same Page.
C1_GetPageNthLeaf ==
    Bind(LeavesOf(arg, 1), LAMBDA leaves :
        /\ ret.op = "GetCount" => ret.val = Len(leaves)
        /\ (ret.op = "GetPage" /\ ret.n <= Len(leaves)) =>
              /\ ~ret.panic
              /\ ret.err = ""
              /\ ret.page = OidOf(leaves[ret.n], 0)
              /\ ret.body = <<ByteCell(leaves[ret.n])>>
        /\ ( /\ ret.op = "GetPage" /\ hist.op = "GetPage" /\ ret.n # hist.n
              /\ ret.n <= Len(leaves) /\ hist.n <= Len(leaves) )
              => ret.page # hist.page)

-----------------------------------------------------------------------------
(* SpecDamage: Walk over a file one object of which is damaged.  The file  *)
(* holds the objects 1/0, 2/0 and 3/0, each a dictionary with a one-byte   *)
(* stream.  arg names the damaged object and the step of readObject that   *)
(* fails on it:                                                            *)
(*   "header"     the header is not "%d %d %s"                             *)
(*   "keyword"    the header's third word is not obj                       *)
(*   "value"      the bytes after the header are no value                  *)
(*   "unexpected" neither endobj nor stream follows the value              *)
(*   "short"      fewer than /Length bytes remain                          *)
(*   "endstream"  endstream does not follow the payload                    *)
(*   "endobj"     endobj does not follow endstream                         *)
(*   "none"       the object is sound                                      *)

Damages == { "none", "header", "keyword", "value", "unexpected", "short", "endstream", "endobj" }

\* the cells of object num, damaged as kind says
DamagedCells(num, kind) ==
    << IF kind = "header" THEN TextCell(<<"x">>)
       ELSE HdrCell(num, 0, IF kind = "keyword" THEN "xobj" ELSE "obj"),
       ValCell(IF kind = "value" THEN SrcBad
               ELSE DocDict(<< <<K.length, SrcInt(IF kind = "short" THEN 99 ELSE 1)>> >>)),
       LineCell(IF kind = "unexpected" THEN "other" ELSE "stream"),
       ByteCell(num),
       LineCell(IF kind = "endstream" THEN "other" ELSE "endstream"),
       LineCell(IF kind = "endobj" THEN "other" ELSE "endobj") >>

\* the file: the objects 1/0 .. 3/0, a.at of them damaged
DamagedFile(a) ==
    concatCells(LAMBDA n : DamagedCells(n, IF n = a.at THEN a.kind ELSE "none"), 1, 3)

\* the entries of the objects of the file, each at the start of its object
DamagedPointers == [n \in 1..3 |-> Pointer(OidOf(n, 0), <<>>, 6 * (n - 1))]

\* readObject reports an error for the entry x
loadFails(d, buf, x) ==
    readObject(buf, seekStart(0, x.Offset), IF x.Oid # d.encrypt THEN d.decrypt ELSE <<>>,
               TRUE).f.err

InitDamage ==
    /\ arg \in [at : 1..3, kind : Damages]
    /\ file = DamagedFile(arg)
    /\ doc = Document(sortDesc(DamagedPointers), <<>>, <<>>, <<>>, <<>>, <<>>)
    /\ ptr = 0
    /\ ret = NoRet
    /\ walk = NoWalk
    /\ hist = [doc |-> doc, file |-> file]
    /\ thr = <<>>

NextDamage ==
    \/ WalkBegin
    \/ \E goon \in BOOLEAN : WalkStep(goon)
    \/ WalkReturn

SpecDamage == InitDamage /\ [][NextDamage]_vars

\* C11: per-object errors during Walk skip the object.  The callback is
\* called for no entry whose load reports an error, whatever the step that
\* failed, and Walk leaves its loop only when the callback asks for it.
C11_WalkSkipsFailedLoads ==
    walk.pc # "idle" =>
        /\ \A k \in 1..Len(walk.log) : ~loadFails(doc, file, doc.xref[walk.log[k].i + 1])
        /\ walk.pc = "break" => walk.log # <<>> /\ ~walk.log[Len(walk.log)].goon

-----------------------------------------------------------------------------
(* SpecOutline: GetOutlines on outline trees.  arg is a tree: items 1..n,  *)
(* par[i] the item above item i, 0 for a top-level item; the items below   *)
(* one item are chained by /Next in ascending order.  The outlines object  *)
(* is "1/0", item i is object "i+1/0" with the title <<i>> spelled in      *)
(* digits, and the catalog is "n+2/0".                                     *)

OutlineTrees(max) ==
    UNION { { [n |-> N, par |-> f] :
                f \in { g \in [1..N -> 0..(N - 1)] : \A i \in 1..N : g[i] < i } } :
            N \in 1..max }

\* the items right below item i (0: the outlines object), in chain order
RECURSIVE itemsFrom(_, _, _)
itemsFrom(t, i, j) ==
    IF j > t.n THEN <<>>
    ELSE (IF t.par[j] = i THEN <<j>> ELSE <<>>) \o itemsFrom(t, i, j + 1)

ItemsOf(t, i) == itemsFrom(t, i, 1)

\* /First and /Last of a node with the items its
ChainEnds(its) ==
    IF its = <<>> THEN <<>>
    ELSE << <<K.first, SrcRef(its[1] + 1, 0)>>, <<K.last, SrcRef(its[Len(its)] + 1, 0)>> >>

\* the dictionary of item i
ItemDict(t, i) ==
    Bind(ItemsOf(t, t.par[i]), LAMBDA sibs :
        DocDict(<< <<K.title, SrcLit(Itoa(i))>> >>
                \o (IF \E k \in 1..(Len(sibs) - 1) : sibs[k] = i
                    THEN << <<K.next,
                              SrcRef(sibs[(CHOOSE k \in 1..Len(sibs) : sibs[k] = i) + 1] + 1, 0)>> >>
                    ELSE <<>>)
                \o ChainEnds(ItemsOf(t, i))))

OutlineFile(t) ==
    ObjCells(1, DocDict(ChainEnds(ItemsOf(t, 0))))
    \o concatCells(LAMBDA i : ObjCells(i + 1, ItemDict(t, i)), 1, t.n)
    \o ObjCells(t.n + 2, DocDict(<< <<K.type, SrcName(TypeName.Catalog)>>,
                                    <<K.outlines, SrcRef(1, 0)>> >>))

\* the tree of Outlines below item i: one entry per item of the chain, in
\* chain order, with its title and the tree below it
RECURSIVE OutlinesBelow(_, _)
RECURSIVE outlinesOfAll(_, _)
outlinesOfAll(t, its) ==
    IF its = <<>> THEN <<>>
    ELSE <<Outline(Itoa(Head(its)), OutlinesBelow(t, Head(its)))>> \o outlinesOfAll(t, Tail(its))

OutlinesBelow(t, i) == outlinesOfAll(t, ItemsOf(t, i))

InitOutline ==
    /\ arg \in OutlineTrees(MaxItems)
    /\ file = OutlineFile(arg)
    /\ doc \in { Document(x, OidOf(arg.n + 2, 0), <<>>, <<>>, <<>>, <<>>) :
                   x \in sortSlice(HeaderPointers(file, 0)) }
    /\ ptr = 0
    /\ ret = NoRet
    /\ hist = NoRet
    /\ walk = NoWalk /\ thr = <<>>

\* a caller asks for the outlines
OutlineGetOutlines ==
    /\ \E r \in {GetOutlines(doc, file, ptr)} :
            /\ ret' = [op |-> "GetOutlines", val |-> r.val, panic |-> r.panic]
            /\ ptr' = r.ptr
    /\ UNCHANGED <<file, doc, arg, walk, thr, hist>>

\* a caller resolves the object of item i
OutlineGetItem(i) ==
    /\ i <= arg.n
    /\ \E r \in {getObjectWithOid(doc, file, ptr, OidOf(i + 1, 0), FALSE)} :
            /\ ret' = [op |-> "get", val |-> r.obj, panic |-> r.panic]
            /\ ptr' = r.ptr
    /\ UNCHANGED <<file, doc, arg, walk, thr, hist>>

NextOutline ==
    \/ OutlineGetOutlines
    \/ \E i \in 1..MaxItems : OutlineGetItem(i)

SpecOutline == InitOutline /\ [][NextOutline]_vars

\* C12: GetOutlines returns the outline tree.  For outlines whose chains
\* reach /Last, the result has one entry per item of the top-level chain, in
\* chain order, each with its title and with Sub the same for the item's
\* own chain, for chains of every length from 1 on.
C12_OutlineTree ==
    ret.op = "GetOutlines" => ~ret.panic /\ ret.val = OutlinesBelow(arg, 0)

-----------------------------------------------------------------------------
(* SpecCrypt: the queries of an encrypted Document.  The file holds the    *)
(* catalog (1/0), a metadata stream (2/0), the info dictionary (3/0), the  *)
(* Encrypt dictionary (4/0), a cross-reference stream (5/0) and a          *)
(* signature (6/0); the Directory has an entry for each of them.  When     *)
(* arg.enc holds, the strings and payloads of 1/0, 2/0, 3/0 and 6/0 are    *)
(* stored enciphered with the key of their object, and the Document has    *)
(* the document key; else the file is plain and the key empty.             *)

\* Object.IsSignature
IsSignature(o) == isType(o, TypeName.Sig)

\* a Signature
Signature(who, when, reason) == [Who |-> who, When |-> when, Reason |-> reason]

\* parseTime, the error dropped: the zero time unless str starts as the
\* patterns do; a time is the string it was parsed from
parseTime(str) == timeOf(str)

\* the Walk of GetSignatures over the entries from the i-th on
RECURSIVE sigLoop(_, _, _, _, _)
sigLoop(d, buf, p, i, list) ==
    IF i > Len(d.xref) THEN Result(list, p, FALSE)
    ELSE IF isEmbed(d.xref[i]) THEN sigLoop(d, buf, p, i + 1, list)
    ELSE Bind(getObjectWithOid(d, buf, p, d.xref[i].Oid, TRUE), LAMBDA r :
        IF r.panic THEN Result(list, r.ptr, TRUE)
        ELSE IF isZero(r.obj) \/ ~IsSignature(r.obj) THEN sigLoop(d, buf, r.ptr, i + 1, list)
        ELSE Bind(getEncryptionKeyForObject(d, r.obj), LAMBDA key :
            sigLoop(d, buf, r.ptr, i + 1,
                    Append(list,
                           Signature(decryptString(key, GetString(r.obj.Dict.m, K.name)),
                                     parseTime(decryptString(key, GetString(r.obj.Dict.m, K.m))),
                                     decryptString(key, GetString(r.obj.Dict.m, K.reason)))))))

\* Document.GetSignatures
GetSignatures(d, buf, p) == sigLoop(d, buf, p, 1, <<>>)

\* the document key of the encrypted file
CryptKey == <<"key", <<"dockey">>, 5, 50>>

\* a string of object num as the file stores it
StoredLit(enc, num, s) ==
    SrcLit(IF enc THEN decryptString(getEncryptionKey(CryptKey, num, 0), s) ELSE s)

\* a payload of object num as the file stores it
StoredBytes(enc, num, bytes) ==
    IF enc THEN decryptBytes(getEncryptionKey(CryptKey, num, 0), bytes) ELSE bytes

CryptFile(enc) ==
    ObjCells(1, DocDict(<< <<K.type, SrcName(TypeName.Catalog)>>, <<K.metadata, SrcRef(2, 0)>>,
                           <<K.lang, StoredLit(enc, 1, <<"e", "n">>)>> >>))
    \o StreamCells(2, DocDict(<< <<K.length, SrcInt(2)>> >>),
                   StoredBytes(enc, 2, <<ByteCell(6), ByteCell(7)>>))
    \o ObjCells(3, DocDict(<< <<K.title, StoredLit(enc, 3, <<"t">>)>> >>))
    \o ObjCells(4, DocDict(<< <<K.u, SrcLit(<<"u">>)>>, <<K.o, SrcLit(<<"o">>)>>,
                              <<K.length, SrcInt(40)>> >>))
    \o StreamCells(5, DocDict(<< <<K.type, SrcName(TypeName.XRef)>>, <<K.length, SrcInt(1)>>,
                                 <<K.id, SrcArr(<<SrcLit(<<"i">>)>>)>> >>),
                   <<ByteCell(1)>>)
    \o ObjCells(6, DocDict(<< <<K.type, SrcName(TypeName.Sig)>>,
                              <<K.name, StoredLit(enc, 6, <<"w">>)>>,
                              <<K.reason, StoredLit(enc, 6, <<"r">>)>>,
                              <<K.m, StoredLit(enc, 6, <<"D", ":", "2">>)>> >>))

\* the Document Open gives for the file
CryptDoc(enc, buf) ==
    Document(sortDesc(HeaderPointers(buf, 0)), OidOf(1, 0), OidOf(3, 0),
             IF enc THEN OidOf(4, 0) ELSE <<>>, <<<<"i">>>>, IF enc THEN CryptKey ELSE <<>>)

\* the Oids callers ask for
CryptOids == { OidOf(n, 0) : n \in 1..6 }

InitCrypt ==
    /\ arg \in [enc : BOOLEAN]
    /\ file = CryptFile(arg.enc)
    /\ doc = CryptDoc(arg.enc, file)
    /\ ptr = 0
    /\ ret = NoRet
    /\ walk = NoWalk
    /\ hist = [doc |-> doc, file |-> file]
    /\ thr = <<>>

\* a caller asks for the signatures
CallGetSignatures ==
    /\ NotWalking
    /\ \E r \in {GetSignatures(doc, file, ptr)} :
          /\ ret' = Called("GetSignatures", <<>>, r.val, r.panic, r.val # <<>>)
          /\ ptr' = r.ptr
    /\ walk' = NoWalk
    /\ UNCHANGED <<file, doc, arg, thr, hist>>

NextCrypt ==
    \/ \E oid \in CryptOids, full \in BOOLEAN : Get(oid, full)
    \/ CallGetLang
    \/ CallGetDocumentMetadata
    \/ CallGetDocumentInfo
    \/ CallGetSignatures
    \/ WalkBegin
    \/ \E goon \in BOOLEAN : WalkStep(goon)
    \/ WalkReturn

SpecCrypt == InitCrypt /\ [][NextCrypt]_vars

\* the object of oid as the plain file holds it
PlainObject(oid, full) ==
    getObjectWithOid(CryptDoc(FALSE, CryptFile(FALSE)), CryptFile(FALSE), 0, oid, full).obj

\* C13: in an encrypted document the Encrypt dictionary and the
\* cross-reference stream are consumed as they are stored, and the strings
\* and payload of every other top-level object are decrypted with the key of
\* the object: whatever getObjectWithOid returns, to a caller or to Walk,
\* is the object with its plain strings and payload.
C13_EncryptAndXRefAsIs ==
    /\ ret.op = "get" => ret.val = PlainObject(ret.a.oid, ret.a.full)
    /\ walk.pc # "idle" =>
          \A k \in 1..Len(walk.log) :
              walk.log[k].obj = PlainObject(doc.xref[walk.log[k].i + 1].Oid, TRUE)

\* C14: for an encrypted document the values the queries hand to the caller
\* are the plaintext, the RC4 transform having been applied once between
\* the bytes of the file and the result: the bytes of GetDocumentMetadata,
\* the strings of GetDocumentInfo and the name, reason and date of
\* GetSignatures are those the same queries give on the plain file.
C14_DecryptedOnce ==
    /\ ret.op = "GetDocumentMetadata" =>
          ret.val = GetDocumentMetadata(CryptDoc(FALSE, CryptFile(FALSE)), CryptFile(FALSE), 0).val
    /\ ret.op = "GetDocumentInfo" =>
          ret.val = GetDocumentInfo(CryptDoc(FALSE, CryptFile(FALSE)), CryptFile(FALSE), 0).val
    /\ ret.op = "GetSignatures" =>
          ret.val = GetSignatures(CryptDoc(FALSE, CryptFile(FALSE)), CryptFile(FALSE), 0).val

-----------------------------------------------------------------------------
(* Open of a file with or without an Encrypt dictionary *)

\* the /U entries tried: the expected bytes, those followed by padding, the
\* bytes one pass short, the bytes for another permission word, other
\* bytes, nothing
UserKinds == {"match", "padded", "stale", "perm", "other", "empty"}

\* the /Length entries tried, 0 for none
KeyLengths == {0, 40, 128, 136}

\* the /P entries tried
KeyPerms == {0 - 4, 4}

\* the first string of /ID
KeyId == <<"i", "d">>

\* the owner entry /O
KeyOwner == <<"o", "w">>

\* the bytes of the 32-bit word P, low byte first: those of P, or for a
\* negative P the complements of those of -P - 1
leBytes(P) ==
    [i \in 1..4 |-> IF P >= 0 THEN (P \div (256 ^ (i - 1))) % 256
                    ELSE 255 - (((0 - P - 1) \div (256 ^ (i - 1))) % 256)]

\* the key section 4.4 derives: MD5 of the padding, O, P and id[0], hashed
\* 50 times more over its first length / 8 bytes
ExpectedKey(owner, P, id0, length) ==
    <<"key", <<"padding", owner, leBytes(P), id0>>, length \div 8, 50>>

\* S after k steps of section 4.4: the sum of the padding and id[0], one
\* RC4 pass with the key, then a pass with the key XORed with 1, 2, ...
RECURSIVE SAfter(_, _, _)
SAfter(key, id0, k) ==
    IF k = 0 THEN <<"md5", <<"padding", id0>>>>
    ELSE IF k = 1 THEN <<"rc4", key, SAfter(key, id0, 0)>>
    ELSE <<"rc4", <<"xor", key, k - 1>>, SAfter(key, id0, k - 1)>>

\* the key the file was enciphered with
KeyOf(a) == ExpectedKey(KeyOwner, a.p, KeyId, IF a.length = 0 THEN 40 ELSE a.length)

\* S20 of the file
S20(a) == <<ToString(SAfter(KeyOf(a), KeyId, 20))>>

\* the /U entry of the file
UserOf(a) ==
    CASE a.u = "match" -> S20(a)
      [] a.u = "padded" -> S20(a) \o <<"x", "y">>
      [] a.u = "stale" -> <<ToString(SAfter(KeyOf(a), KeyId, 19))>>
      [] a.u = "perm" ->
           <<ToString(SAfter(ExpectedKey(KeyOwner, a.p + 1, KeyId,
                                         IF a.length = 0 THEN 40 ELSE a.length), KeyId, 20))>>
      [] a.u = "other" -> <<"u">>
      [] OTHER -> <<>>

\* the file: the Encrypt dictionary 1/0, the information dictionary 2/0, a
\* classic cross-reference section and the trailer
KeyFile(a) ==
    << TextCell(Magic \o <<"4">>) >>
    \o ObjCells(1, DocDict(<< <<K.u, SrcLit(UserOf(a))>>, <<K.o, SrcLit(KeyOwner)>>,
                              <<K.p, SrcInt(a.p)>> >>
                           \o IF a.length = 0 THEN <<>>
                              ELSE << <<K.length, SrcInt(a.length)>> >>))
    \o ObjCells(2, DocDict(<< <<K.title,
                                SrcLit(IF a.enc
                                       THEN decryptString(getEncryptionKey(KeyOf(a), 2, 0), <<"t">>)
                                       ELSE <<"t">>)>> >>))
    \o << LineCell("xref"), SubCell(1, 2), RecCell(1, 0, "n"), RecCell(4, 0, "n"),
          TrailerCell(DocDict(<< <<K.info, SrcRef(2, 0)>> >>
                              \o (IF a.enc THEN << <<K.encrypt, SrcRef(1, 0)>> >> ELSE <<>>)
                              \o (IF a.id THEN << <<K.id, SrcArr(<<SrcLit(KeyId), SrcLit(KeyId)>>)>> >>
                                  ELSE <<>>))),
          StartxrefCell(7, TRUE) >>

\* the cells read at the end of the file
KeyWindow == 4

InitKey ==
    /\ arg \in [enc : BOOLEAN, u : UserKinds, length : KeyLengths, p : KeyPerms, id : BOOLEAN]
    /\ file = KeyFile(arg)
    /\ doc = NoDoc
    /\ ptr = 0
    /\ ret = NoRet
    /\ walk = NoWalk
    /\ hist = NoRet
    /\ thr = <<>>

\* Open: readFile returns the Document with what setupKey returns
KeyOpen ==
    /\ ret.op = "none"
    /\ \E o \in readFileResult(file, KeyWindow) :
          /\ doc' = o.doc
          /\ ptr' = o.ptr
          /\ ret' = [op |-> "Open", err |-> o.err, panic |-> o.panic,
                     ok |-> o.err = "" /\ ~o.panic]
          /\ hist' = [op |-> "Open", err |-> o.err, panic |-> o.panic]
    /\ UNCHANGED <<file, arg, walk, thr>>

\* a caller asks the opened Document for its information
KeyGetDocumentInfo ==
    /\ hist.op = "Open" /\ hist.err = "" /\ ~hist.panic
    /\ CallGetDocumentInfo

NextKey ==
    \/ KeyOpen
    \/ KeyGetDocumentInfo

SpecKey == InitKey /\ [][NextKey]_vars

\* the inputs section 4.4 names: a file id and a length of 40 to 128 bits
KeyInputs == arg.id /\ arg.length \in 40..128 /\ arg.length % 8 = 0

C15_Accepted ==
    /\ hist.op = "Open" /\ arg.enc /\ KeyInputs /\ arg.u = "padded" /\ hist.err = ""
    /\ ret.op = "GetDocumentInfo" /\ ret.val.Title = <<"t">>

\* the bytes of the key of an object for an Encrypt dictionary with /Length
\* length
ObjectKeyLen(length) ==
    IF length \div 8 + 5 < MaxKeyLength THEN length \div 8 + 5 ELSE MaxKeyLength

\* C25: in every encrypted document Open accepts, the document key has
\* length / 8 bytes and the key of every object (n, g) has
\* min(length / 8 + 5, 16) bytes, length being the /Length of the Encrypt
\* dictionary; once keys of objects were derived and used, the document key
\* is the one Open derived
C25_ObjectKeyLength ==
    (hist.op = "Open" /\ arg.enc /\ hist.err = "" /\ ~hist.panic)
        => /\ keyLen(doc.decrypt) = arg.length \div 8
           /\ \A n \in 1..2, g \in 0..1 :
                 /\ keyLen(getEncryptionKey(doc.decrypt, n, g)) = ObjectKeyLen(arg.length)
                 /\ getEncryptionKey(doc.decrypt, n, g)[2] = doc.decrypt
           /\ doc.decrypt = ExpectedKey(KeyOwner, arg.p, KeyId, arg.length)

\* C25: Open has taken a file with a key of 128 bits, and the title was
\* read with the key of object 2/0, cut to the 16 bytes of a sum
C25_KeyCapped ==
    /\ hist.op = "Open" /\ arg.enc /\ arg.length = 128 /\ hist.err = "" /\ ~hist.panic
    /\ ret.op = "GetDocumentInfo" /\ ret.val.Title = <<"t">>
    /\ keyLen(getEncryptionKey(doc.decrypt, 2, 0)) = MaxKeyLength
    /\ keyLen(doc.decrypt) + 5 > MaxKeyLength

-----------------------------------------------------------------------------
(* Body on streams with a predictor *)

\* the bytes of a stream
MaxPayload == 5

\* the byte values tried
PayloadBytes == {1, 200}

\* the streams tried: the payload, /Columns, /Predictor, whether deflated
PredictorInputs(max) ==
    [ payload : UNION { [1..n -> PayloadBytes] : n \in 0..max },
      columns : 1..2, predictor : {1, 2, 12}, flate : BOOLEAN ]

\* the file: the one stream object 1/0
PredictorFile(a) ==
    StreamCells(1, DocDict(<< <<K.length, SrcInt(Len(a.payload) + IF a.flate THEN 1 ELSE 0)>>,
                              <<K.decodeparms,
                                DocDict(<< <<K.predictor, SrcInt(a.predictor)>>,
                                           <<K.columns, SrcInt(a.columns)>> >>)>> >>
                           \o IF a.flate THEN << <<K.filter, SrcName(TypeName.FlateDecode)>> >>
                              ELSE <<>>),
                (IF a.flate THEN <<ZlibCell>> ELSE <<>>)
                \o [i \in 1..Len(a.payload) |-> ByteCell(a.payload[i])])

InitPredictor ==
    /\ arg \in PredictorInputs(MaxPayload)
    /\ file = PredictorFile(arg)
    /\ doc = NoDoc
    /\ ptr = 0
    /\ ret = NoRet
    /\ walk = NoWalk
    /\ hist = NoRet
    /\ thr = <<>>

\* the object is loaded with its stream and a caller asks for its Body
CallBody ==
    /\ ret.op = "none"
    /\ \E r \in {readObject(file, 0, <<>>, TRUE)} :
          /\ ptr' = r.ptr
          /\ \E b \in {Body(r.f.obj)} :
                ret' = [op |-> "Body", bytes |-> b.bytes, err |-> b.err, panic |-> b.panic,
                        loaded |-> ~r.f.err /\ ~r.f.panic]
    /\ UNCHANGED <<file, doc, arg, walk, thr, hist>>

NextPredictor == CallBody

SpecPredictor == InitPredictor /\ [][NextPredictor]_vars

\* the sum modulo 256 of the data bytes j of the input rows 0..i
RECURSIVE ColumnSum(_, _, _, _)
ColumnSum(payload, columns, i, j) ==
    IF i < 0 THEN 0
    ELSE (ColumnSum(payload, columns, i - 1, j) + payload[i * (columns + 1) + j + 2]) % 256

\* C16: with a predictor above 1, Body returns the row-wise cumulative sums
\* of the rows of columns+1 bytes, for every payload length, without
\* reading outside the payload
C16_PredictorRows ==
    (ret.op = "Body" /\ arg.predictor > 1) =>
       /\ ret.loaded /\ ~ret.panic /\ ~ret.err
       /\ Len(ret.bytes) % arg.columns = 0
       /\ Len(ret.bytes) >= (Len(arg.payload) \div (arg.columns + 1)) * arg.columns
       /\ \A i \in 0..((Len(arg.payload) \div (arg.columns + 1)) - 1), j \in 0..(arg.columns - 1) :
             ret.bytes[i * arg.columns + j + 1]
                = ByteCell(ColumnSum(arg.payload, arg.columns, i, j))

-----------------------------------------------------------------------------
(* readObject on streams whose /Length is direct or a reference *)

\* the bytes of a stream and the lengths its dictionary states
MaxLength == 3

\* the streams tried: the bytes stored, the length stated, whether /Length
\* is an integer or a reference to the integer object 2/0, whether
\* endstream is there
LengthInputs(max) ==
    [ stored : 0..max, stated : 0..(max + 1), form : {"direct", "reference"},
      endstream : BOOLEAN ]

\* the payload of the stream
LengthPayload(a) == [i \in 1..a.stored |-> ByteCell(i)]

\* the file: the stream 1/0, then the integer 2/0
LengthFile(a) ==
    << HdrCell(1, 0, "obj"),
       ValCell(DocDict(<< <<K.length, IF a.form = "direct" THEN SrcInt(a.stated)
                                        ELSE SrcRef(2, 0)>> >>)),
       LineCell("stream") >>
    \o LengthPayload(a)
    \o (IF a.endstream THEN <<LineCell("endstream")>> ELSE <<>>)
    \o << LineCell("endobj") >>
    \o ObjCells(2, SrcInt(a.stated))

InitLength ==
    /\ arg \in LengthInputs(MaxLength)
    /\ file = LengthFile(arg)
    /\ doc = NoDoc
    /\ ptr = 0
    /\ ret = NoRet
    /\ walk = NoWalk
    /\ hist = NoRet
    /\ thr = <<>>

\* the object at offset 0 is loaded
LoadStream(full) ==
    /\ ret.op = "none"
    /\ \E r \in {readObject(file, 0, <<>>, full)} :
          /\ ptr' = r.ptr
          /\ ret' = [op |-> "readObject", full |-> full, obj |-> r.f.obj, err |-> r.f.err,
                     panic |-> r.f.panic]
    /\ UNCHANGED <<file, doc, arg, walk, thr, hist>>

NextLength == \E full \in BOOLEAN : LoadStream(full)

SpecLength == InitLength /\ [][NextLength]_vars

\* C17: loaded with full=true, Content is exactly the /Length bytes after
\* the stream keyword, whether /Length is an integer or a reference to an
\* integer object; the load reports an error when fewer bytes remain or
\* endstream does not follow them
C17_LengthAuthoritative ==
    (ret.op = "readObject" /\ ret.full) =>
       /\ ~ret.panic
       /\ (arg.stated = arg.stored /\ arg.endstream)
             => ~ret.err /\ ret.obj.Content = LengthPayload(arg)
       /\ ~(arg.stated = arg.stored /\ arg.endstream) => ret.err

-----------------------------------------------------------------------------
(* getObjectWithOid on Pointers into an object stream *)

\* the body of the object stream 10/0: the pairs of 8/0 and 9/0, then their
\* values
EmbedBody ==
    << NumCell(8), NumCell(0), NumCell(9), NumCell(1),
       ValCell(DocDict(<< <<K.title, SrcLit(<<"a">>)>> >>)), ValCell(SrcInt(7)) >>

\* the /First entries tried: up to one past the body, and one past the capacity
EmbedFirsts == 0..(Len(EmbedBody) + 1) \cup {ReadAllCap + 1}

\* the owners tried: an object stream, an object of another type, none
EmbedOwners == {"ObjStm", "Catalog", "missing"}

\* the file: the owner 10/0
EmbedFile(a) ==
    StreamCells(10, DocDict(<< <<K.type, SrcName(IF a.owner = "ObjStm" THEN TypeName.ObjStm
                                                 ELSE TypeName.Catalog)>>,
                               <<K.first, SrcInt(a.first)>>, <<K.n, SrcInt(a.n)>>,
                               <<K.length, SrcInt(Len(EmbedBody))>> >>),
                EmbedBody)

\* the Document: the InStream Pointer asked for and, unless missing, the owner
EmbedDoc(a) ==
    Document(sortDesc(<< Pointer(OidOf(a.num, 0), OidOf(10, 0), a.index) >>
                      \o IF a.owner = "missing" THEN <<>>
                         ELSE << Pointer(OidOf(10, 0), <<>>, 0) >>),
             <<>>, <<>>, <<>>, <<>>, <<>>)

InitEmbed ==
    /\ arg \in [owner : EmbedOwners, first : EmbedFirsts, n : 0..3, index : 0..2, num : {8, 9}]
    /\ file = EmbedFile(arg)
    /\ doc = EmbedDoc(arg)
    /\ ptr = 0
    /\ ret = NoRet
    /\ walk = NoWalk
    /\ hist = NoRet
    /\ thr = <<>>

\* a caller asks for the embedded object
EmbedGet(full) ==
    /\ ret.op = "none"
    /\ \E r \in {getObjectWithOid(doc, file, ptr, OidOf(arg.num, 0), full)} :
          /\ ptr' = r.ptr
          /\ ret' = [op |-> "get", full |-> full, obj |-> r.obj, panic |-> r.panic]
    /\ UNCHANGED <<file, doc, arg, walk, thr, hist>>

NextEmbed == \E full \in BOOLEAN : EmbedGet(full)

SpecEmbed == InitEmbed /\ [][NextEmbed]_vars

\* the cases in which a null Object is due
EmbedNull ==
    \/ arg.owner # "ObjStm"
    \/ arg.index >= arg.n
    \/ arg.first < 2 * (arg.index + 1)
    \/ arg.first > Len(EmbedBody)
    \/ EmbedBody[2 * arg.index + 1] # NumCell(arg.num)

\* C18: for an InStream Pointer getObjectWithOid returns the value at /First
\* plus the local offset of the index-th pair under the Oid asked for, and
\* a null Object, reading nothing outside the stream or the table, when
\* the owner is missing or no object stream, the index is outside [0, /N),
\* the table is too short, /First exceeds the body or the pair names
\* another object
C18_EmbeddedResolved ==
    ret.op = "get" =>
       /\ ~ret.panic
       /\ EmbedNull => ret.obj = ZeroObject
       /\ (~EmbedNull /\ arg.first + EmbedBody[2 * arg.index + 2].n < Len(EmbedBody)) =>
             /\ ret.obj.Oid = OidOf(arg.num, 0)
             /\ ret.obj.Data =
                   IF EmbedBody[arg.first + EmbedBody[2 * arg.index + 2].n + 1].k = "num"
                   THEN VInt(EmbedBody[arg.first + EmbedBody[2 * arg.index + 2].n + 1].n)
                   ELSE parseValue(EmbedBody[arg.first + EmbedBody[2 * arg.index + 2].n + 1].sv,
                                   <<>>).v

-----------------------------------------------------------------------------
(* Open of files whose first object has or lacks /Linearized *)

\* the /Linearized entries tried
LinKinds == {"absent", "integer", "real", "name", "string"}

\* the value of /Linearized
LinValue(kind) ==
    CASE kind = "integer" -> SrcInt(1)
      [] kind = "real" -> SrcReal(<<"1", ".", "0">>)
      [] kind = "name" -> SrcName(<<"T", "r", "u", "e">>)
      [] OTHER -> SrcLit(<<"1">>)

\* the dictionary of the first object
LinDict(a) ==
    DocDict(<< <<K.size, SrcInt(9)>> >>
            \o IF a.lin = "absent" THEN <<>> ELSE << <<K.linearized, LinValue(a.lin)>> >>)

\* the objects the cross-reference stream behind the first object lists
LinObjs == 2..4

\* the offset of object n of the file
LinOffset(a, n) == 18 + 3 * Cardinality({ m \in a.objs : m < n })

\* the file: the first object 1/0, the cross-reference stream 9/0 with the
\* objects of a.objs, those objects, the object 5/0, and a classic section
\* with 5/0 alone
LinFile(a) ==
    << TextCell(Magic \o <<"4">>) >>
    \o ObjCells(1, LinDict(a))
    \o StreamCells(9, DocDict(<< <<K.type, SrcName(TypeName.XRef)>>, <<K.root, SrcRef(2, 0)>>,
                                 <<K.w, SrcArr(<<SrcInt(1), SrcInt(1), SrcInt(1)>>)>>,
                                 <<K.index, SrcArr(<<SrcInt(2), SrcInt(3)>>)>>,
                                 <<K.length, SrcInt(9)>> >>),
                   concatCells(LAMBDA n : IF n \in a.objs
                                          THEN <<ByteCell(1), ByteCell(LinOffset(a, n)), ByteCell(0)>>
                                          ELSE <<ByteCell(0), ByteCell(0), ByteCell(0)>>, 2, 4))
    \o concatCells(LAMBDA n : IF n \in a.objs THEN ObjCells(n, SrcInt(n)) ELSE <<>>, 2, 4)
    \o ObjCells(5, SrcInt(5))
    \o << LineCell("xref"), SubCell(5, 1),
          RecCell(18 + 3 * Cardinality(a.objs), 0, "n"),
          TrailerCell(DocDict(<< <<K.root, SrcRef(5, 0)>> >>)),
          StartxrefCell(21 + 3 * Cardinality(a.objs), TRUE) >>

InitLin ==
    /\ arg \in [lin : LinKinds, objs : (SUBSET LinObjs) \ {{}}]
    /\ file = LinFile(arg)
    /\ doc = NoDoc
    /\ ptr = 0
    /\ ret = NoRet
    /\ walk = NoWalk
    /\ hist = NoRet
    /\ thr = <<>>

\* a caller asks the opened Document for an object
LinGet(oid, full) ==
    /\ hist.op = "Open" /\ hist.err = "" /\ ~hist.panic
    /\ Get(oid, full)

NextLin ==
    \/ KeyOpen
    \/ \E n \in LinObjs \cup {5}, full \in BOOLEAN : LinGet(OidOf(n, 0), full)

SpecLin == InitLin /\ [][NextLin]_vars

\* Open took the linearized path: the Directory is that of the stream
TookLinearized ==
    /\ doc.open
    /\ \A n \in LinObjs \cup {5} :
          (\E i \in 1..Len(doc.xref) : doc.xref[i].Oid = OidOf(n, 0)) <=> n \in arg.objs

\* Open took the classic path: the Directory is that of the table
TookClassic ==
    /\ doc.open
    /\ \A n \in LinObjs \cup {5} :
          (\E i \in 1..Len(doc.xref) : doc.xref[i].Oid = OidOf(n, 0)) <=> n = 5

\* C19: Open takes the linearized path exactly when the dictionary of the
\* first object has a /Linearized entry, whatever the type of its value:
\* Linearized() is true for an Integer, a Real, a Name and a String, and
\* false without the key
C19_LinearizedAnyType ==
    hist.op = "Open" =>
          /\ Linearized(parseValue(LinDict(arg), <<>>).v.v) <=> arg.lin # "absent"
          /\ ~hist.panic /\ hist.err = ""
          /\ IF arg.lin # "absent" THEN TookLinearized ELSE TookClassic

-----------------------------------------------------------------------------
(* getObjectWithOid on Pointers whose offsets may name another object *)

\* the objects of the file
OidObjs == 1..3

\* the offsets a Pointer may hold: the three headers, and a place that is none
OidOffsets == {0, 3, 6, 1}

\* the file: the objects 1/0, 2/0 and 3/0
OidFile == concatCells(LAMBDA n : ObjCells(n, SrcInt(n)), 1, 3)

\* the Document: one InUse Pointer per object, at the offset a.off gives it
OidDoc(a) ==
    Document(sortDesc([n \in OidObjs |-> Pointer(OidOf(n, 0), <<>>, a.off[n])]),
             <<>>, <<>>, <<>>, <<>>, <<>>)

InitOid ==
    /\ arg \in [off : [OidObjs -> OidOffsets]]
    /\ file = OidFile
    /\ doc = OidDoc(arg)
    /\ ptr = 0
    /\ ret = NoRet
    /\ walk = NoWalk
    /\ hist = NoRet
    /\ thr = <<>>

NextOid == \E n \in OidObjs \cup {4}, full \in BOOLEAN : Get(OidOf(n, 0), full)

SpecOid == InitOid /\ [][NextOid]_vars

\* C20: getObjectWithOid returns a null Object or an Object whose Oid is
\* the one asked for: a Pointer whose offset lands on the header of another
\* object does not return that object
C20_OidMatchesRequest ==
    ret.op = "get" =>
       /\ ~ret.panic
       /\ isZero(ret.val) \/ ret.val.Oid = ret.a.oid

-----------------------------------------------------------------------------
(* The Reader over bytes.  Here the buffer is a sequence of bytes, each a  *)
(* one-character string, and the position p counts bytes from 0 as r.ptr   *)
(* does.  An operation returns the position it leaves with its result.     *)

\* the bytes the code names
nl == "\n"

cr == "\r"

space == " "

tab == "\t"

\* the zero byte of a failed ReadByte
NulByte == "nul"

\* what a Reader operation leaves: the position, the value, whether it
\* returned an error, whether it panicked
Got(p, val, err, panic) == [ptr |-> p, val |-> val, err |-> err, panic |-> panic]

\* r.buf[p:] of a buffer, for 0 <= p <= len
bufFrom(buf, p) == SubSeq(buf, p + 1, Len(buf))

\* Reader.ReadByte
ReadByte(buf, p) ==
    IF p >= Len(buf) THEN Got(p, NulByte, TRUE, FALSE)
    ELSE IF p < 0 THEN Got(p, NulByte, FALSE, TRUE)
    ELSE Got(p + 1, buf[p + 1], FALSE, FALSE)

\* Reader.UnreadByte
UnreadByte(buf, p) == Got(IF p <= 0 THEN p ELSE p - 1, NulByte, FALSE, FALSE)

\* io.SeekStart, io.SeekCurrent, io.SeekEnd
SeekStart == 0

SeekCurrent == 1

SeekEnd == 2

\* Reader.Seek: the position is assigned before it is looked at
Seek(buf, p, offset, whence) ==
    IF whence \notin {SeekStart, SeekCurrent, SeekEnd} THEN Got(p, 0, TRUE, FALSE)
    ELSE Bind(CASE whence = SeekStart -> offset
                [] whence = SeekCurrent -> p + offset
                [] OTHER -> Len(buf) + offset, LAMBDA q :
             Got(q, IF q < 0 THEN 0 ELSE q, q < 0, FALSE))

\* Reader.Discard
Discard(buf, p, n) ==
    IF p >= Len(buf) THEN Got(p, 0, TRUE, FALSE)
    ELSE IF p + n >= Len(buf) THEN Got(Len(buf), p + n - Len(buf), FALSE, FALSE)
    ELSE Got(p + n, n, FALSE, FALSE)

\* Reader.Len
ReaderLen(buf, p) == IF p >= Len(buf) THEN 0 ELSE Len(buf) - p

\* bytes.IndexByte(s, c), -1 when s has no c
IndexByte(s, c) ==
    IF \E i \in 1..Len(s) : s[i] = c
    THEN (CHOOSE i \in 1..Len(s) : s[i] = c /\ \A j \in 1..(i - 1) : s[j] # c) - 1
    ELSE 0 - 1

\* indexNL over s: the offset found and whether s[crix+1] was outside s
indexNL(s) ==
    Bind(IndexByte(s, cr), LAMBDA crix :
    Bind(IndexByte(s, nl), LAMBDA nlix :
        IF crix >= 0
        THEN IF crix + 1 >= Len(s) THEN [off |-> 0, panic |-> TRUE]
             ELSE Bind(IF s[crix + 2] = nl THEN crix + 1 ELSE crix, LAMBDA last :
                      [off |-> IF nlix >= 0 /\ nlix < last - 1 THEN nlix ELSE last,
                       panic |-> FALSE])
        ELSE [off |-> IF nlix >= 0 THEN nlix ELSE 0, panic |-> FALSE]))

\* the white space bytes.TrimSpace cuts
isTrimmed(b) == b \in {space, tab, nl, cr, "\f"}

\* bytes.TrimSpace
RECURSIVE TrimSpace(_)
TrimSpace(s) ==
    IF s = <<>> THEN s
    ELSE IF isTrimmed(Head(s)) THEN TrimSpace(Tail(s))
    ELSE IF isTrimmed(s[Len(s)]) THEN TrimSpace(SubSeq(s, 1, Len(s) - 1))
    ELSE s

\* Reader.readLine
readLine(buf, p) ==
    IF p >= Len(buf) THEN Got(p, <<>>, TRUE, FALSE)
    ELSE IF p < 0 THEN Got(p, <<>>, FALSE, TRUE)
    ELSE Bind(indexNL(bufFrom(buf, p)), LAMBDA ix :
        IF ix.panic THEN Got(p, <<>>, FALSE, TRUE)
        ELSE Bind(IF ix.off + 1 <= 0 THEN Len(buf) - p ELSE ix.off + 1, LAMBDA offset :
                 Got(p + offset, TrimSpace(SubSeq(buf, p + 1, p + offset)), FALSE, FALSE)))

\* Reader.ReadLine: readLine until an error or a line that is not empty
RECURSIVE ReadLine(_, _)
ReadLine(buf, p) ==
    Bind(readLine(buf, p), LAMBDA r :
        IF r.panic \/ r.err \/ Len(r.val) > 0 THEN r ELSE ReadLine(buf, r.ptr))

-----------------------------------------------------------------------------
(* SpecReader: a caller seeks, discards, reads and unreads on a Reader    *)
(* over a short buffer.  ret holds the last call: its name, the position   *)
(* before it, its argument and what it returned.                           *)

\* the bytes of a buffer
MaxBuf == 4

\* the bytes buffers are made of
LineBytes == {"a", cr, nl}

\* the buffers of up to max bytes
Buffers(max) == UNION { [1..n -> LineBytes] : n \in 0..max }

InitReader ==
    /\ file \in Buffers(MaxBuf)
    /\ ptr = 0
    /\ ret = NoRet
    /\ doc = NoDoc
    /\ arg = <<>>
    /\ walk = NoWalk
    /\ hist = NoRet
    /\ thr = <<>>

\* the last call did not panic
Running == IF ret.op = "none" THEN TRUE ELSE ~ret.panic

\* what a call leaves in ret
ReaderCall(op, a, r) ==
    [op |-> op, before |-> ptr, a |-> a, val |-> r.val, err |-> r.err, panic |-> r.panic]

\* a call of the Reader
ReaderDo(op, a, r) ==
    /\ Running
    /\ ptr' = r.ptr
    /\ ret' = ReaderCall(op, a, r)
    /\ UNCHANGED <<file, doc, arg, walk, thr, hist>>

\* r.Seek(offset, whence), for targets up to two bytes outside the buffer
ReaderSeek(offset, whence) ==
    /\ Seek(file, ptr, offset, whence).ptr \in (0 - 2)..(Len(file) + 2)
    /\ ReaderDo("Seek", [offset |-> offset, whence |-> whence], Seek(file, ptr, offset, whence))

ReaderDiscard(n) == ReaderDo("Discard", n, Discard(file, ptr, n))

ReaderReadByte == ReaderDo("ReadByte", <<>>, ReadByte(file, ptr))

ReaderUnreadByte == ReaderDo("UnreadByte", <<>>, UnreadByte(file, ptr))

ReaderReadLine == ReaderDo("ReadLine", <<>>, ReadLine(file, ptr))

NextReader ==
    \/ \E offset \in (0 - 2)..(MaxBuf + 2), whence \in {SeekStart, SeekCurrent, SeekEnd} :
          ReaderSeek(offset, whence)
    \/ \E n \in 0..2 : ReaderDiscard(n)
    \/ ReaderReadByte
    \/ ReaderUnreadByte
    \/ ReaderReadLine

SpecReader == InitReader /\ [][NextReader]_vars

\* the target of the last Seek
SeekTarget ==
    CASE ret.a.whence = SeekStart -> ret.a.offset
      [] ret.a.whence = SeekCurrent -> ret.before + ret.a.offset
      [] OTHER -> Len(file) + ret.a.offset

\* C26: a Seek to a target outside [0, Size] returns an error and leaves
\* the position as it was; after any calls of Seek, Discard, ReadByte and
\* UnreadByte the position is in [0, Size]; a read at or past the end
\* returns EOF without moving the position
C26_SeekInRange ==
    ret.op \in {"Seek", "Discard", "ReadByte", "UnreadByte"} =>
       /\ ~ret.panic
       /\ ptr \in 0..Len(file)
       /\ (ret.op = "Seek" /\ SeekTarget \notin 0..Len(file)) => ret.err /\ ptr = ret.before
       /\ (ret.op = "ReadByte" /\ ret.before >= Len(file)) => ret.err /\ ptr = ret.before

\* the byte ends a line
isTerminator(b) == b \in {cr, nl}

\* the first position from p on that holds no terminator, the end if none
RECURSIVE LineStart(_, _)
LineStart(buf, p) ==
    IF p >= Len(buf) \/ ~isTerminator(buf[p + 1]) THEN p ELSE LineStart(buf, p + 1)

\* the first position from p on that holds a terminator, the end if none
RECURSIVE LineEnd(_, _)
LineEnd(buf, p) ==
    IF p >= Len(buf) \/ isTerminator(buf[p + 1]) THEN p ELSE LineEnd(buf, p + 1)

\* the bytes of the terminator at p: CR LF, CR, LF, or none at the end
TerminatorLen(buf, p) ==
    IF p >= Len(buf) THEN 0
    ELSE IF buf[p + 1] = cr /\ p + 1 < Len(buf) /\ buf[p + 2] = nl THEN 2
    ELSE 1

\* C27: ReadLine returns the next line that is not empty, without its
\* terminator (CR, LF or CR LF), and leaves the position just past that
\* terminator; a last line without terminator is returned whole; a buffer
\* that ends with a lone CR is read without a read past its end
C27_ReadLineNextLine ==
    (ret.op = "ReadLine" /\ ret.before \in 0..Len(file)) =>
       /\ ~ret.panic
       /\ IF LineStart(file, ret.before) >= Len(file)
          THEN ret.err
          ELSE /\ ~ret.err
               /\ ret.val = SubSeq(file, LineStart(file, ret.before) + 1,
                                   LineEnd(file, LineStart(file, ret.before)))
               /\ ptr = LineEnd(file, LineStart(file, ret.before))
                          + TerminatorLen(file, LineEnd(file, LineStart(file, ret.before)))

-----------------------------------------------------------------------------
(* SpecCycle: getObjectWithOid and GetOutlines as the sequences of their   *)
(* calls, on Directories and outlines that may hold cycles.  walk is the   *)
(* running query: its stack of calls and what it holds.  A call of         *)
(* getObjectWithOid is decided by the Oid asked for, a turn of the loop of *)
(* getOutlines by the item it loads: once the stack is deeper than the     *)
(* objects there are, or a list longer than the items there are, the same  *)
(* call or turn has come back and the query goes on for ever, until the    *)
(* runtime gives up.                                                       *)

\* the objects of the file
CycleObjs == 1..3

\* the depth of calls, more than there are objects
MaxDepth == 4

\* the entries of one list of Outlines, more than there are items
MaxLines == 3

\* the body of each object stream: the pairs of 1/0, 2/0, 3/0, their values
CycleBody ==
    << NumCell(1), NumCell(0), NumCell(2), NumCell(1), NumCell(3), NumCell(2),
       ValCell(SrcInt(1)), ValCell(SrcInt(2)), ValCell(SrcInt(3)) >>

\* the cells of one object stream
CycleStream(n) ==
    StreamCells(n, DocDict(<< <<K.type, SrcName(TypeName.ObjStm)>>, <<K.first, SrcInt(6)>>,
                              <<K.n, SrcInt(3)>>, <<K.length, SrcInt(9)>> >>),
                CycleBody)

\* the file of object streams 1/0, 2/0, 3/0
OwnersFile == concatCells(LAMBDA n : CycleStream(n), 1, 3)

\* the cross-reference stream: object n is in use where it stands when
\* owner[n] = 0, else a record of type 2 naming the object stream owner[n]
OwnersXRef(owner) ==
    readObject(StreamCells(9, DocDict(<< <<K.type, SrcName(TypeName.XRef)>>,
                                         <<K.w, SrcArr(<<SrcInt(1), SrcInt(1), SrcInt(1)>>)>>,
                                         <<K.index, SrcArr(<<SrcInt(1), SrcInt(3)>>)>>,
                                         <<K.length, SrcInt(9)>> >>),
                           concatCells(LAMBDA n :
                                           IF owner[n] = 0
                                           THEN <<ByteCell(1), ByteCell(14 * (n - 1)), ByteCell(0)>>
                                           ELSE <<ByteCell(2), ByteCell(owner[n]), ByteCell(n - 1)>>,
                                       1, 3)),
               0, <<>>, TRUE).f.obj

\* the Document Open builds from that stream
OwnersDoc(owner) ==
    Document(sortDesc(objectReadXRef(OwnersXRef(owner)).ps), <<>>, <<>>, <<>>, <<>>, <<>>)

\* an item of the outline: its /Next and the item its /First and /Last name
\* (0 for none; 1 is the root of the outline)
OutlineItems == [next : {0, 2, 3}, sub : 0..3]

\* the dictionary of item n
GraphItemDict(n, it) ==
    DocDict(<< <<K.title, SrcLit(Itoa(n))>> >>
            \o (IF it.next = 0 THEN <<>> ELSE << <<K.next, SrcRef(it.next, 0)>> >>)
            \o (IF it.sub = 0 THEN <<>>
                ELSE << <<K.first, SrcRef(it.sub, 0)>>, <<K.last, SrcRef(it.sub, 0)>> >>))

\* the file of an outline: the root 1/0, the items 2/0 and 3/0
GraphFile(a) ==
    ObjCells(1, DocDict(<< <<K.first, SrcRef(a.first, 0)>>, <<K.last, SrcRef(a.last, 0)>> >>))
    \o ObjCells(2, GraphItemDict(2, a.items[2]))
    \o ObjCells(3, GraphItemDict(3, a.items[3]))

\* the inputs: a Directory of owners, or an outline
CycleInputs ==
    { [kind |-> "owners", owner |-> o] : o \in [CycleObjs -> 0..3] }
    \cup { [kind |-> "outline", first |-> f, last |-> l, items |-> i] :
              f \in 2..3, l \in 2..3, i \in [2..3 -> OutlineItems] }

InitCycle ==
    /\ arg \in CycleInputs
    /\ file = IF arg.kind = "owners" THEN OwnersFile ELSE GraphFile(arg)
    /\ doc = IF arg.kind = "owners" THEN OwnersDoc(arg.owner)
             ELSE Document(sortDesc(HeaderPointers(file, 0)), <<>>, <<>>, <<>>, <<>>, <<>>)
    /\ ptr = 0
    /\ ret = NoRet
    /\ walk = NoWalk
    /\ hist = NoRet
    /\ thr = <<>>

\* a caller asks getObjectWithOid for an object
CycleGet(oid, full) ==
    /\ arg.kind = "owners" /\ walk.pc = "idle"
    /\ walk' = [pc |-> "descend", oid |-> oid, full |-> full, frames |-> <<>>,
                obj |-> ZeroObject, panic |-> FALSE]
    /\ ret' = [op |-> "get", oid |-> oid]
    /\ UNCHANGED <<file, ptr, doc, arg, thr, hist>>

\* getObjectWithOid(walk.oid): the search, then the read of the object or
\* the call for its owner
CycleDescend ==
    /\ walk.pc = "descend"
    /\ \E i \in {searchLoop(doc.xref, walk.oid, 0, Len(doc.xref))} :
          IF walk.oid = <<>> \/ ~found(doc.xref, i, walk.oid)
          THEN /\ walk' = [walk EXCEPT !.pc = "ascend", !.obj = ZeroObject]
               /\ ptr' = ptr
          ELSE IF ~isEmbed(doc.xref[i + 1])
          THEN \E r \in {readObject(file, seekStart(ptr, doc.xref[i + 1].Offset), <<>>,
                                    walk.full \/ walk.frames # <<>>)} :
                  /\ walk' = [walk EXCEPT !.pc = "ascend", !.obj = r.f.obj, !.panic = r.f.panic]
                  /\ ptr' = r.ptr
          ELSE /\ walk' = IF Len(walk.frames) >= MaxDepth
                          THEN [walk EXCEPT !.pc = "overflow"]
                          ELSE [walk EXCEPT !.frames = Append(@, doc.xref[i + 1]),
                                            !.oid = doc.xref[i + 1].Owner]
               /\ ptr' = ptr
    /\ UNCHANGED <<file, doc, arg, ret, thr, hist>>

\* a call of getObjectWithOid returns: to the call that asked for the owner,
\* which takes the object out of it, or to the caller
CycleAscend ==
    /\ walk.pc = "ascend"
    /\ IF walk.frames = <<>>
       THEN /\ walk' = [pc |-> "idle"]
            /\ ret' = [op |-> "got", oid |-> ret.oid, val |-> walk.obj, panic |-> walk.panic]
       ELSE /\ \E e \in {IF walk.panic THEN Loaded(ZeroObject, 0, TRUE)
                         ELSE getEmbeddedObject(walk.obj, walk.frames[Len(walk.frames)].Oid,
                                                walk.frames[Len(walk.frames)].Offset)} :
                  walk' = [walk EXCEPT !.frames = SubSeq(@, 1, Len(@) - 1),
                                       !.obj = e.obj, !.panic = e.panic]
            /\ ret' = ret
    /\ UNCHANGED <<file, ptr, doc, arg, thr, hist>>

\* the frame of a call getOutlines(obj): the Oid of obj, first, last, the
\* lines so far, and the title of the item whose Sub is being built
OutlineFrame(obj) ==
    [cur |-> obj.Oid, first |-> GetString(obj.Dict.m, K.first),
     last |-> GetString(obj.Dict.m, K.last), lines |-> <<>>, title |-> <<>>]

\* a caller asks for the outlines below the root 1/0
CycleGetOutlines ==
    /\ arg.kind = "outline" /\ walk.pc = "idle"
    /\ \E r \in {getObjectWithOid(doc, file, ptr, OidOf(1, 0), FALSE)} :
          /\ walk' = [pc |-> "outline", frames |-> <<OutlineFrame(r.obj)>>]
          /\ ptr' = r.ptr
    /\ ret' = [op |-> "GetOutlines"]
    /\ UNCHANGED <<file, doc, arg, thr, hist>>

\* the frames after the last call returned lines to the one before it
outlineReturn(frames, lines) ==
    Bind(frames[Len(frames) - 1], LAMBDA up :
        SubSeq(frames, 1, Len(frames) - 2)
        \o << [up EXCEPT !.lines = Append(@, Outline(up.title, lines))] >>)

\* one turn of the loop of the innermost getOutlines, or its return
CycleOutlineStep ==
    /\ walk.pc = "outline"
    /\ \E top \in {walk.frames[Len(walk.frames)]} :
          IF top.cur = top.last \/ isZero(getObjectWithOid(doc, file, ptr, top.first, FALSE).obj)
          THEN \E lines \in {IF top.cur = top.last THEN top.lines ELSE <<>>} :
                  /\ ptr' = IF top.cur = top.last THEN ptr
                            ELSE getObjectWithOid(doc, file, ptr, top.first, FALSE).ptr
                  /\ IF Len(walk.frames) = 1
                     THEN /\ walk' = [pc |-> "idle"]
                          /\ ret' = [op |-> "outlines", val |-> lines]
                     ELSE /\ walk' = IF Len(walk.frames[Len(walk.frames) - 1].lines) >= MaxLines
                                     THEN [walk EXCEPT !.pc = "exhausted"]
                                     ELSE [walk EXCEPT !.frames = outlineReturn(@, lines)]
                          /\ ret' = ret
          ELSE \E r \in {getObjectWithOid(doc, file, ptr, top.first, FALSE)} :
                  /\ ptr' = r.ptr
                  /\ ret' = ret
                  /\ \E turned \in {[top EXCEPT !.cur = r.obj.Oid,
                                                !.first = GetString(r.obj.Dict.m, K.next),
                                                !.title = GetString(r.obj.Dict.m, K.title)]} :
                        walk' =
                           IF Has(r.obj.Dict.m, K.first)
                           THEN IF Len(walk.frames) >= MaxDepth
                                THEN [walk EXCEPT !.pc = "overflow"]
                                ELSE [walk EXCEPT
                                        !.frames = SubSeq(@, 1, Len(@) - 1)
                                                   \o <<turned, OutlineFrame(r.obj)>>]
                           ELSE IF Len(top.lines) >= MaxLines
                                THEN [walk EXCEPT !.pc = "exhausted"]
                                ELSE [walk EXCEPT
                                        !.frames = SubSeq(@, 1, Len(@) - 1)
                                                   \o <<[turned EXCEPT
                                                           !.lines = Append(@, Outline(turned.title, <<>>))]>>]
    /\ UNCHANGED <<file, doc, arg, thr, hist>>

NextCycle ==
    \/ \E n \in CycleObjs \cup {4}, full \in BOOLEAN : CycleGet(OidOf(n, 0), full)
    \/ CycleDescend
    \/ CycleAscend
    \/ CycleGetOutlines
    \/ CycleOutlineStep

SpecCycle == InitCycle /\ [][NextCycle]_vars

\* C28: every query terminates on every Directory and object graph Open
\* can build, cyclic ones included: no call of getObjectWithOid and no
\* GetOutlines comes back to a call or a turn it is still in
C28_QueriesTerminate == walk.pc \notin {"overflow", "exhausted"}

-----------------------------------------------------------------------------
(* SpecFields: Open on files of two sections written as cross-reference    *)
(* streams, the dictionary of each with its own /Root, /Info, /Encrypt and *)
(* /ID.  arg says what each dictionary holds (0 for a key it lacks) and    *)
(* whether the newer one names the older with /Prev.                       *)

\* what a section's dictionary holds: the object /Root names, the object
\* /Info names, whether it has /Encrypt 1 0 R, whether it has /ID
FieldChoices == [root : 0..2, info : 0..1, encrypt : 0..1, id : 0..1]

\* the file identifiers of the older and of the newer section
FieldsId(newer) == IF newer THEN <<"n", "e", "w">> ELSE <<"o", "l", "d">>

\* the pairs of a section's dictionary for the choice c
FieldPairs(c, newer) ==
    (IF c.root = 0 THEN <<>> ELSE << <<K.root, SrcRef(c.root, 0)>> >>)
    \o (IF c.info = 0 THEN <<>> ELSE << <<K.info, SrcRef(c.info, 0)>> >>)
    \o (IF c.encrypt = 0 THEN <<>> ELSE << <<K.encrypt, SrcRef(c.encrypt, 0)>> >>)
    \o (IF c.id = 0 THEN <<>>
        ELSE << <<K.id, SrcArr(<<SrcLit(FieldsId(newer)), SrcLit(FieldsId(newer))>>)>> >>)

\* the header and the objects 1/0 and 2/0
FieldsHead == << TextCell(Magic \o <<"4">>) >> \o ObjCells(1, SrcInt(1)) \o ObjCells(2, SrcInt(2))

\* where the older and the newer section start: a section is the five
\* cells of a stream object around the three bytes of its one record
OlderOffset == Len(FieldsHead)

NewerOffset == OlderOffset + 8

\* the file: objects 1/0 and 2/0, the older section with the entry of 1/0,
\* the newer one with the entry of 2/0, startxref naming the newer one
FieldsFile(a) ==
    FieldsHead
    \o StreamCells(8, DocDict(<< <<K.type, SrcName(TypeName.XRef)>>,
                                 <<K.w, SrcArr(<<SrcInt(1), SrcInt(1), SrcInt(1)>>)>>,
                                 <<K.index, SrcArr(<<SrcInt(1), SrcInt(1)>>)>>,
                                 <<K.length, SrcInt(3)>> >> \o FieldPairs(a.older, FALSE)),
                   <<ByteCell(1), ByteCell(1), ByteCell(0)>>)
    \o StreamCells(9, DocDict(<< <<K.type, SrcName(TypeName.XRef)>>,
                                 <<K.w, SrcArr(<<SrcInt(1), SrcInt(1), SrcInt(1)>>)>>,
                                 <<K.index, SrcArr(<<SrcInt(2), SrcInt(1)>>)>>,
                                 <<K.length, SrcInt(3)>> >> \o FieldPairs(a.newer, TRUE)
                              \o (IF a.prev THEN << <<K.prev, SrcInt(OlderOffset)>> >> ELSE <<>>)),
                   <<ByteCell(1), ByteCell(4), ByteCell(0)>>)
    \o << StartxrefCell(NewerOffset, TRUE) >>

\* the cells in the first and in the last MinRead bytes of these files
FieldsWindow == 4

InitFields ==
    /\ arg \in [newer : FieldChoices, older : FieldChoices, prev : BOOLEAN]
    /\ file = FieldsFile(arg)
    /\ doc = NoDoc
    /\ ptr = 0
    /\ ret = NoRet
    /\ walk = NoWalk /\ thr = <<>> /\ hist = NoRet

\* Open, whatever it returns
FieldsOpen ==
    /\ ret.op = "none"
    /\ \E o \in readFileResult(file, FieldsWindow) :
          /\ doc' = IF o.err = "" /\ ~o.panic THEN o.doc ELSE NoDoc
          /\ ptr' = o.ptr
          /\ ret' = [op |-> "Open", err |-> o.err, panic |-> o.panic]
    /\ UNCHANGED <<file, arg, walk, thr, hist>>

\* a caller asks the opened Document for its catalog
FieldsGetCatalog ==
    /\ doc.open
    /\ ret.op = "Open"
    /\ \E r \in {getCatalog(doc, file, ptr)} :
          /\ ret' = [op |-> "getCatalog", val |-> r.obj, panic |-> r.panic]
          /\ ptr' = r.ptr
    /\ UNCHANGED <<file, doc, arg, walk, thr, hist>>

NextFields ==
    \/ FieldsOpen
    \/ FieldsGetCatalog

SpecFields == InitFields /\ [][NextFields]_vars

\* the fields a dictionary written for the choice c gives a Document
FieldsOf(c, newer) ==
    [ encrypt |-> IF c.encrypt = 0 THEN <<>> ELSE OidOf(c.encrypt, 0),
      catalog |-> IF c.root = 0 THEN <<>> ELSE OidOf(c.root, 0),
      info |-> IF c.info = 0 THEN <<>> ELSE OidOf(c.info, 0),
      fileid |-> IF c.id = 0 THEN <<>> ELSE <<FieldsId(newer), FieldsId(newer)>> ]

\* C30: after Open through the cross-reference-stream path on a file whose
\* newest stream dictionary has /Prev, catalog, info, encrypt and fileid of
\* the Document are those of the newest section's dictionary
C30_NewestFieldsKept ==
    (arg.prev /\ doc.open)
        => /\ doc.catalog = FieldsOf(arg.newer, TRUE).catalog
           /\ doc.info = FieldsOf(arg.newer, TRUE).info
           /\ doc.encrypt = FieldsOf(arg.newer, TRUE).encrypt
           /\ doc.fileid = FieldsOf(arg.newer, TRUE).fileid

-----------------------------------------------------------------------------
(* SpecSection: the views Open takes of the file.  arg describes a file    *)
(* with one section, a classic table or a cross-reference stream: the      *)
(* number of its objects, the offset written after startxref, in the file  *)
(* or one cell before or after it, and win, the number of cells MinRead    *)
(* bytes cover, more than the file has when the file is short.             *)

\* the most objects of a file
MaxViewObjs == 3

\* the cells MinRead bytes cover, in a short and in a long file
ViewWindows == {4, 16}

\* the file of n objects whose startxref line says off
ViewFile(kind, n, off) ==
    << TextCell(Magic \o <<"4">>) >>
    \o concatCells(LAMBDA i : ObjCells(i, SrcInt(i)), 1, n)
    \o (IF kind = "classic"
        THEN << LineCell("xref"), SubCell(1, n) >>
             \o [i \in 1..n |-> RecCell(3 * i - 2, 0, "n")]
             \o << TrailerCell(DocDict(<< <<K.root, SrcRef(1, 0)>>, <<K.size, SrcInt(n + 1)>> >>)) >>
        ELSE StreamCells(9, DocDict(<< <<K.type, SrcName(TypeName.XRef)>>, <<K.root, SrcRef(1, 0)>>,
                                       <<K.w, SrcArr(<<SrcInt(1), SrcInt(1), SrcInt(1)>>)>>,
                                       <<K.index, SrcArr(<<SrcInt(1), SrcInt(n)>>)>>,
                                       <<K.length, SrcInt(3 * n)>> >>),
                         concatCells(LAMBDA i : <<ByteCell(1), ByteCell(3 * i - 2), ByteCell(0)>>,
                                     1, n)))
    \o << StartxrefCell(off, TRUE) >>

\* the cells of such a file
ViewLen(kind, n) == Len(ViewFile(kind, n, 0))

ViewInputs ==
    UNION { { [kind |-> k, objs |-> n, off |-> o, win |-> w] : o \in -1..(ViewLen(k, n) + 1) } :
              k \in {"classic", "stream"}, n \in 1..MaxViewObjs, w \in ViewWindows }

InitSection ==
    /\ arg \in ViewInputs
    /\ file = ViewFile(arg.kind, arg.objs, arg.off)
    /\ doc = NoDoc
    /\ ptr = 0
    /\ ret = NoRet
    /\ walk = NoWalk /\ thr = <<>> /\ hist = NoRet

\* a request Section(offset, size)
View(offset, size) == [offset |-> offset, size |-> size]

\* the requests readFile and readClassic make, in their order: the head of
\* the file, then its tail unless the head was refused or linearized, then
\* the table from the offset readTrailer returned
openSections(buf, win) ==
    << View(0, win) >>
    \o IF badSection(buf, 0, win) THEN <<>>
       ELSE Bind(readPreamble(Section(buf, 0, win)), LAMBDA pre :
           IF pre.panic \/ pre.err \/ pre.lin # 0 THEN <<>>
           ELSE Bind(IF Len(buf) > win THEN win ELSE Len(buf), LAMBDA size :
               << View(Len(buf) - size, size) >>
               \o IF readTrailer(Section(buf, Len(buf) - size, size)).err # "" THEN <<>>
                  ELSE Bind(readTrailer(Section(buf, Len(buf) - size, size)).val, LAMBDA offset :
                           << View(offset, Len(buf) - offset) >>)))

\* Open, whatever it returns
SectionOpen ==
    /\ ret.op = "none"
    /\ \E o \in readFileResult(file, arg.win) :
          /\ doc' = IF o.err = "" /\ ~o.panic THEN o.doc ELSE NoDoc
          /\ ptr' = o.ptr
          /\ ret' = [op |-> "Open", err |-> o.err, panic |-> o.panic,
                     views |-> openSections(file, arg.win)]
    /\ UNCHANGED <<file, arg, walk, thr, hist>>

\* a caller resolves object n of the opened Document
SectionGet(n) ==
    /\ doc.open
    /\ \E r \in {getObjectWithOid(doc, file, ptr, OidOf(n, 0), FALSE)} :
          /\ ret' = [op |-> "get", n |-> n, val |-> r.obj, panic |-> r.panic]
          /\ ptr' = r.ptr
    /\ UNCHANGED <<file, doc, arg, walk, thr, hist>>

NextSection ==
    \/ SectionOpen
    \/ \E n \in 1..MaxViewObjs : SectionGet(n)

SpecSection == InitSection /\ [][NextSection]_vars

\* C29: during Open every view Section(offset, size) is requested with
\* 0 <= offset and offset + size <= Size(), also for a file shorter than
\* MinRead bytes, and with a startxref offset that is negative or beyond
\* the end of the file Open returns an error: it never slices outside the
\* buffer
C29_SectionsInBounds ==
    ret.op = "Open"
        => /\ \A i \in 1..Len(ret.views) :
                 /\ ret.views[i].offset >= 0
                 /\ ret.views[i].size >= 0
                 /\ ret.views[i].offset + ret.views[i].size <= Len(file)
           /\ arg.off \notin 0..Len(file) => (ret.err # "" /\ ~ret.panic)

-----------------------------------------------------------------------------
(* The value parser on bytes.  A Reader is its buffer, a sequence of bytes *)
(* written as one-character strings, and its position p, 0-based.  A       *)
(* parser returns the value, whether it failed and the position it leaves; *)
(* loops says that it never returns.  The first position of a parser is    *)
(* never negative and no step makes it so: none of them panics.            *)

formfeed == "\f"

backspace == "bs"

langle == "<"

rangle == ">"

lsquare == "["

rsquare == "]"

lparen == "("

rparen == ")"

pound == "#"

slash == "/"

minus == "-"

plus == "+"

dot == "."

backslash == "\\"

DigitBytes == {"0", "1", "2", "3", "4", "5", "6", "7", "8", "9"}

LowerBytes == { Charset[i] : i \in Ord("a")..Ord("z") }

UpperBytes == { Charset[i] : i \in Ord("A")..Ord("Z") }

isLetter(b) == b \in LowerBytes \/ b \in UpperBytes

isSign(b) == b = minus \/ b = plus

isDigit(b) == b \in DigitBytes

isNumber(b) == isDigit(b) \/ isSign(b)

isHex(b) == isDigit(b) \/ b \in LowerBytes \/ b \in { Charset[i] : i \in Ord("A")..Ord("F") }

isSpace(b) == b = space \/ b = tab

isBlank(b) == isSpace(b) \/ b = cr \/ b = nl

\* fromHexChar(b), 0 for a byte that is no hexadecimal digit
fromHexChar(b) ==
    IF isDigit(b) THEN Ord(b) - Ord("0")
    ELSE IF b \in { Charset[i] : i \in Ord("a")..Ord("f") } THEN Ord(b) - Ord("a") + 10
    ELSE IF b \in { Charset[i] : i \in Ord("A")..Ord("F") } THEN Ord(b) - Ord("A") + 10
    ELSE 0

\* the byte with the value n: its character, or for a byte the model has
\* no character for, the digits of its value
byteOf(n) ==
    CASE n = 0 -> NulByte
      [] n = 8 -> backspace
      [] n = 9 -> tab
      [] n = 10 -> nl
      [] n = 12 -> formfeed
      [] n = 13 -> cr
      [] n = 32 -> space
      [] n = 35 -> pound
      [] n = 40 -> lparen
      [] n = 41 -> rparen
      [] n = 43 -> plus
      [] n = 45 -> minus
      [] n = 46 -> dot
      [] n \in 47..57 -> Charset[n - 46]
      [] n = 60 -> langle
      [] n = 62 -> rangle
      [] n \in 65..90 -> Charset[n - 65 + Ord("A")]
      [] n = 91 -> lsquare
      [] n = 92 -> backslash
      [] n = 93 -> rsquare
      [] n \in 97..122 -> Charset[n - 97 + Ord("a")]
      [] OTHER -> ToString(n)

\* strings.ToLower of one byte
lowerByte(b) == IF b \in UpperBytes THEN ToLower(<<b>>)[1] ELSE b

\* a bool
VBool(b) == [t |-> "bool", v |-> b]

\* what a parser on bytes returns
Tok(v, err, p, loops) == [v |-> v, err |-> err, ptr |-> p, loops |-> loops]

\* Reader.Tell
Tell(p) == p

\* skipBlank(r): the position it leaves
RECURSIVE skipBlank(_, _)
skipBlank(buf, p) ==
    IF ReaderLen(buf, p) <= 0 THEN p
    ELSE Bind(ReadByte(buf, p), LAMBDA b :
             IF ~isBlank(b.val) THEN UnreadByte(buf, b.ptr).ptr ELSE skipBlank(buf, b.ptr))

\* the loop of parseDecimal: bytes are taken while they are digits or dots;
\* the byte that ends the run is put back, also when there was none to read
RECURSIVE decimalLoop(_, _, _)
decimalLoop(buf, p, str) ==
    Bind(ReadByte(buf, p), LAMBDA b :
        IF ~isDigit(b.val) /\ b.val # dot THEN Tok(str, FALSE, UnreadByte(buf, b.ptr).ptr, FALSE)
        ELSE decimalLoop(buf, b.ptr, Append(str, b.val)))

\* parseDecimal(r): the first byte whatever it is, then the run
parseDecimal(buf, p) ==
    Bind(ReadByte(buf, p), LAMBDA b : decimalLoop(buf, b.ptr, <<b.val>>))

\* parseReference(r): the revision and ok, or the position before the byte
\* read last by the caller
parseReference(buf, p) ==
    Bind(IF Tell(p) > 0 THEN Tell(p) - 1 ELSE Tell(p), LAMBDA tell :
    Bind(parseDecimal(buf, p), LAMBDA str :
    Bind(ReadByte(buf, str.ptr), LAMBDA b1 :
        IF b1.val # space
        THEN [rev |-> <<>>, ok |-> FALSE, ptr |-> Seek(buf, b1.ptr, tell, SeekStart).ptr]
        ELSE Bind(ReadByte(buf, b1.ptr), LAMBDA b2 :
                 IF b2.val # "R"
                 THEN [rev |-> <<>>, ok |-> FALSE, ptr |-> Seek(buf, b2.ptr, tell, SeekStart).ptr]
                 ELSE [rev |-> str.v, ok |-> TRUE, ptr |-> b2.ptr]))))

\* the digits of s are all decimal digits, and there is one at least
allDigits(s) == s # <<>> /\ \A i \in 1..Len(s) : isDigit(s[i])

\* strconv.ParseInt(str, 10, 64) returns no error: a sign or none, then
\* digits (the numbers of the model fit 64 bits)
isInt(str) == str # <<>> /\ allDigits(IF isSign(str[1]) THEN Tail(str) ELSE str)

\* the int64 it returns
intOf(str) ==
    IF str[1] = minus THEN 0 - Atoi(Tail(str))
    ELSE IF str[1] = plus THEN Atoi(Tail(str)) ELSE Atoi(str)

\* strconv.ParseFloat(str, 64) returns no error, for a str of signs, digits
\* and dots: a sign or none, then digits around one dot, one digit at least
isFloat(str) ==
    /\ str # <<>>
    /\ Bind(IF isSign(str[1]) THEN Tail(str) ELSE str, LAMBDA s :
           /\ \A i \in 1..Len(s) : isDigit(s[i]) \/ s[i] = dot
           /\ Cardinality({ i \in 1..Len(s) : s[i] = dot }) <= 1
           /\ \E i \in 1..Len(s) : isDigit(s[i]))

\* the end of parseNumber: the int64, or the float64, or the error
numberOf(str, p) ==
    IF isInt(str) THEN Tok(VInt(intOf(str)), FALSE, p, FALSE)
    ELSE IF isFloat(str) THEN Tok(VReal(str), FALSE, p, FALSE)
    ELSE Tok(VReal(<<"0">>), TRUE, p, FALSE)

\* parseNumber(r)
parseNumber(buf, p) ==
    Bind(parseDecimal(buf, p), LAMBDA str :
    Bind(ReadByte(buf, str.ptr), LAMBDA b :
        IF b.val = space
        THEN Bind(parseReference(buf, b.ptr), LAMBDA ref :
                 IF ref.ok THEN Tok(VStr(str.v \o <<"/">> \o ref.rev), FALSE, ref.ptr, FALSE)
                 ELSE numberOf(str.v, ref.ptr))
        ELSE numberOf(str.v, UnreadByte(buf, b.ptr).ptr)))

\* the loop of parseIdent
RECURSIVE identLoop(_, _, _)
identLoop(buf, p, str) ==
    Bind(ReadByte(buf, p), LAMBDA b :
        IF ~isLetter(b.val) THEN Tok(str, FALSE, UnreadByte(buf, b.ptr).ptr, FALSE)
        ELSE identLoop(buf, b.ptr, Append(str, b.val)))

\* parseIdent(r)
parseIdent(buf, p) ==
    Bind(identLoop(buf, p, <<>>), LAMBDA ident :
        CASE ToLower(ident.v) = <<"t", "r", "u", "e">> -> Tok(VBool(TRUE), FALSE, ident.ptr, FALSE)
          [] ToLower(ident.v) = <<"f", "a", "l", "s", "e">> -> Tok(VBool(FALSE), FALSE, ident.ptr, FALSE)
          [] ToLower(ident.v) \in {<<"o", "b", "j">>, <<"n", "u", "l", "l">>} ->
                Tok(VStr(ident.v), FALSE, ident.ptr, FALSE)
          [] OTHER -> Tok(VStr(<<>>), TRUE, ident.ptr, FALSE))

\* the loop of parseHex
RECURSIVE hexLoop(_, _, _, _)
hexLoop(buf, p, key, str) ==
    Bind(ReadByte(buf, p), LAMBDA b :
        IF b.err THEN Tok(Nil, TRUE, b.ptr, FALSE)
        ELSE IF b.val = rangle
        THEN Tok(VStr(convertString(decryptString(key, str))), FALSE, b.ptr, FALSE)
        ELSE IF isSpace(b.val) THEN hexLoop(buf, skipBlank(buf, b.ptr), key, str)
        ELSE IF ~isHex(b.val) THEN Tok(VStr(<<>>), TRUE, b.ptr, FALSE)
        ELSE Bind(ReadByte(buf, b.ptr), LAMBDA b2 :
                 IF b2.val = rangle
                 THEN hexLoop(buf, UnreadByte(buf, b2.ptr).ptr, key,
                              Append(str, byteOf(16 * fromHexChar(b.val) + fromHexChar("0"))))
                 ELSE hexLoop(buf, b2.ptr, key,
                              Append(str, byteOf(16 * fromHexChar(b.val) + fromHexChar(b2.val))))))

\* parseHex(r, key), the reader being after the "<"
parseHex(buf, p, key) == hexLoop(buf, p, key, <<>>)

\* the byte an escape stands for in parseString
escapeOf(b) ==
    CASE b = "n" -> nl
      [] b = "r" -> cr
      [] b = "t" -> tab
      [] b = "b" -> backspace
      [] b = "f" -> formfeed
      [] OTHER -> b

\* the loop of parseString
RECURSIVE stringLoop(_, _, _, _, _)
stringLoop(buf, p, key, parens, str) ==
    Bind(ReadByte(buf, p), LAMBDA b :
        IF b.err THEN Tok(Nil, TRUE, b.ptr, FALSE)
        ELSE Bind(IF b.val = lparen THEN parens + 1
                  ELSE IF b.val = rparen THEN parens - 1 ELSE parens, LAMBDA n :
            IF b.val = rparen /\ n = 0
            THEN Tok(VStr(convertString(decryptString(key, str))), FALSE, b.ptr, FALSE)
            ELSE IF b.val = backslash
            THEN Bind(ReadByte(buf, b.ptr), LAMBDA e :
                     IF e.val = nl THEN stringLoop(buf, e.ptr, key, n, str)
                     ELSE stringLoop(buf, e.ptr, key, n, Append(str, escapeOf(e.val))))
            ELSE stringLoop(buf, b.ptr, key, n, Append(str, b.val))))

\* parseString(r, key), the reader being after the "("
parseString(buf, p, key) == stringLoop(buf, p, key, 1, <<>>)

\* the bytes that end a name
NameEnds == {cr, nl, space, tab, langle, lsquare, lparen, rangle, rsquare, rparen, slash}

\* the loop of parseName
RECURSIVE nameLoop(_, _, _)
nameLoop(buf, p, str) ==
    Bind(ReadByte(buf, p), LAMBDA b :
        IF b.err THEN Tok(<<>>, TRUE, b.ptr, FALSE)
        ELSE IF b.val = pound
        THEN Bind(ReadByte(buf, b.ptr), LAMBDA c1 :
             Bind(ReadByte(buf, c1.ptr), LAMBDA c2 :
                 IF ~isHex(c1.val) /\ ~isHex(c2.val) THEN Tok(<<>>, TRUE, c2.ptr, FALSE)
                 ELSE nameLoop(buf, c2.ptr,
                               Append(str, byteOf(16 * fromHexChar(c1.val) + fromHexChar(c2.val))))))
        ELSE IF b.val \in NameEnds THEN Tok(str, FALSE, UnreadByte(buf, b.ptr).ptr, FALSE)
        ELSE nameLoop(buf, b.ptr, Append(str, b.val)))

\* parseName(r)
parseName(buf, p) ==
    Bind(ReadByte(buf, p), LAMBDA b :
        IF b.val # slash THEN Tok(<<>>, TRUE, b.ptr, FALSE) ELSE nameLoop(buf, b.ptr, <<>>))

\* parseValue(r, key), and the loops of parseArray and parseDict.  A turn of
\* such a loop is decided by the position it starts at, the buffer being
\* what it is: seen holds the positions of the turns so far, and a turn
\* that starts where an earlier one did is the first of a run without end.
RECURSIVE parseValueAt(_, _, _)
RECURSIVE arrayLoop(_, _, _, _, _)
RECURSIVE dictLoop(_, _, _, _, _)

arrayLoop(buf, p, key, arr, seen) ==
    Bind(skipBlank(buf, p), LAMBDA q :
        IF q \in seen THEN Tok(Nil, FALSE, q, TRUE)
        ELSE Bind(ReadByte(buf, q), LAMBDA b :
            IF b.err THEN Tok(Nil, TRUE, b.ptr, FALSE)
            ELSE IF b.val = rsquare THEN Tok(VArr(arr), FALSE, b.ptr, FALSE)
            ELSE Bind(parseValueAt(buf, UnreadByte(buf, b.ptr).ptr, key), LAMBDA v :
                     IF v.loops THEN v
                     ELSE IF v.err THEN Tok(Nil, TRUE, v.ptr, FALSE)
                     ELSE arrayLoop(buf, v.ptr, key, Append(arr, v.v), seen \cup {q}))))

\* lower-case of a name
lowerName(s) == [i \in 1..Len(s) |-> lowerByte(s[i])]

dictLoop(buf, p, key, dict, seen) ==
    Bind(skipBlank(buf, p), LAMBDA q :
        IF q \in seen THEN Tok(Nil, FALSE, q, TRUE)
        ELSE Bind(ReadByte(buf, q), LAMBDA b :
            IF b.err THEN Tok(DictV(dict), TRUE, b.ptr, FALSE)
            ELSE IF b.val = rangle
            THEN Bind(ReadByte(buf, b.ptr), LAMBDA b2 :
                     Tok(DictV(dict), b2.val # rangle, b2.ptr, FALSE))
            ELSE Bind(parseName(buf, UnreadByte(buf, b.ptr).ptr), LAMBDA name :
                     IF name.err THEN Tok(DictV(dict), TRUE, name.ptr, FALSE)
                     ELSE Bind(parseValueAt(buf, name.ptr, key), LAMBDA v :
                              IF v.loops THEN v
                              ELSE IF v.err THEN Tok(DictV(dict), TRUE, v.ptr, FALSE)
                              ELSE dictLoop(buf, v.ptr, key, Put(dict, lowerName(name.v), v.v),
                                            seen \cup {q})))))

parseValueAt(buf, p, key) ==
    Bind(ReadByte(buf, skipBlank(buf, p)), LAMBDA b :
        CASE b.val = langle ->
                Bind(ReadByte(buf, b.ptr), LAMBDA b2 :
                    IF b2.val = langle THEN dictLoop(buf, b2.ptr, key, EmptyDict, {})
                    ELSE parseHex(buf, UnreadByte(buf, b2.ptr).ptr, key))
          [] b.val = lparen -> parseString(buf, b.ptr, key)
          [] b.val = lsquare -> arrayLoop(buf, b.ptr, key, <<>>, {})
          [] b.val = slash ->
                Bind(parseName(buf, UnreadByte(buf, b.ptr).ptr), LAMBDA name :
                    Tok(VStr(name.v), name.err, name.ptr, FALSE))
          [] isLetter(b.val) -> parseIdent(buf, UnreadByte(buf, b.ptr).ptr)
          [] isNumber(b.val) -> parseNumber(buf, UnreadByte(buf, b.ptr).ptr)
          [] OTHER -> Tok(Nil, TRUE, b.ptr, FALSE))
-----------------------------------------------------------------------------
(* SpecParse: parseValue on buffers of bytes.  arg.kind names the bytes    *)
(* the buffer is made of: those of numbers and references, those that open *)
(* values and never close them, those of literal strings, those of hex     *)
(* strings.  A caller parses value after value from the same Reader.       *)

\* the bytes of a buffer
MaxText == 6

\* the bytes of each kind of buffer, and the bytes a buffer starts with
TextBytes(kind) ==
    CASE kind = "number" -> {"1", minus, dot, space, "R"}
      [] kind = "open" -> {lsquare, langle, lparen, slash, "1", space}
      [] kind = "string" -> {lparen, rparen, backslash, "n", "1", nl}
      [] OTHER -> {rangle, "4", "a", space, nl}

FirstBytes(kind) ==
    CASE kind = "number" -> {"1", minus}
      [] kind = "open" -> {lsquare, langle, lparen}
      [] kind = "string" -> {lparen}
      [] OTHER -> {langle}

TextKinds == {"number", "open", "string", "hex"}

\* the buffers of a kind of up to max bytes
Texts(kind, max) ==
    UNION { { <<c>> \o t : c \in FirstBytes(kind), t \in [1..n -> TextBytes(kind)] } :
              n \in 0..(max - 1) }

InitParse ==
    /\ arg \in [kind : TextKinds]
    /\ file \in Texts(arg.kind, MaxText)
    /\ ptr = 0
    /\ ret = NoRet
    /\ doc = NoDoc
    /\ walk = NoWalk /\ thr = <<>> /\ hist = NoRet

\* a caller parses the next value, unless the last call failed or is still
\* running
ParseValue ==
    /\ IF ret.op = "none" THEN TRUE ELSE ~ret.err /\ ~ret.loops
    /\ \E r \in {parseValueAt(file, ptr, <<>>)} :
          /\ ret' = [op |-> "parseValue", before |-> ptr, val |-> r.v, err |-> r.err,
                     loops |-> r.loops]
          /\ ptr' = r.ptr
    /\ UNCHANGED <<file, doc, arg, walk, thr, hist>>

NextParse == ParseValue

SpecParse == InitParse /\ [][NextParse]_vars


\* the end of the run of digits, or of digits and dots, that starts after
\* the i-th byte of s
RECURSIVE runEnd(_, _, _)
runEnd(s, i, dots) ==
    IF i < Len(s) /\ (isDigit(s[i + 1]) \/ (dots /\ s[i + 1] = dot)) THEN runEnd(s, i + 1, dots)
    ELSE i

\* the number a buffer starts with: its first byte and the digits and dots
\* after it
NumberAt(s) == SubSeq(s, 1, runEnd(s, 1, TRUE))

\* the integer after the number and one space
RevisionAt(s) == SubSeq(s, Len(NumberAt(s)) + 2, runEnd(s, Len(NumberAt(s)) + 1, FALSE))

\* the buffer starts with a reference: a positive integer, one space, a
\* non-negative integer, one space, R
StartsWithReference(s) ==
    /\ allDigits(NumberAt(s)) /\ Atoi(NumberAt(s)) > 0
    /\ Len(s) >= Len(NumberAt(s)) + Len(RevisionAt(s)) + 3
    /\ s[Len(NumberAt(s)) + 1] = space
    /\ RevisionAt(s) # <<>>
    /\ s[Len(NumberAt(s)) + Len(RevisionAt(s)) + 2] = space
    /\ s[Len(NumberAt(s)) + Len(RevisionAt(s)) + 3] = "R"

\* C21: parsing a number yields a Reference exactly when the number is a
\* positive integer followed by one space, a non-negative integer, one
\* space and R; in every other case the value is the number and the cursor
\* is left right after the last character of the number
C21_ReferenceLookahead ==
    (arg.kind = "number" /\ ret.op = "parseValue" /\ ret.before = 0
       /\ (isInt(NumberAt(file)) \/ isFloat(NumberAt(file))))
        => /\ ~ret.err /\ ~ret.loops
           /\ IF StartsWithReference(file)
              THEN /\ ret.val = VStr(NumberAt(file) \o <<"/">> \o RevisionAt(file))
                   /\ ptr = Len(NumberAt(file)) + Len(RevisionAt(file)) + 3
              ELSE /\ ret.val = IF isInt(NumberAt(file)) THEN VInt(intOf(NumberAt(file)))
                                ELSE VReal(NumberAt(file))
                   /\ ptr = Len(NumberAt(file))

\* C22: parseValue terminates on every buffer, and on a buffer that opens
\* an array, a dictionary, a literal string or a hex string and holds no
\* closing delimiter it returns an error
C22_ParseTerminates ==
    ret.op = "parseValue"
        => /\ ~ret.loops
           /\ (arg.kind = "open" /\ ret.before = 0) => ret.err

\* an octal digit
isOctal(b) == b \in {"0", "1", "2", "3", "4", "5", "6", "7"}

\* the value of octal digits
RECURSIVE octalOf(_, _)
octalOf(s, n) == IF s = <<>> THEN n ELSE octalOf(Tail(s), 8 * n + (Ord(Head(s)) - Ord("0")))

\* the octal digits of an escape, three at most, from the i-th byte on
OctalAt(s, i) ==
    SubSeq(s, i, CHOOSE j \in i..(i + 2) :
                    /\ j <= Len(s)
                    /\ \A k \in i..j : isOctal(s[k])
                    /\ (j = i + 2 \/ j = Len(s) \/ ~isOctal(s[j + 1])))

\* the literal string whose bytes after the "(" start at the i-th of s, by
\* the rules of the format: its value and the byte after it, or not ok
\* when it is not closed
RECURSIVE literalFrom(_, _, _, _)
literalFrom(s, i, depth, out) ==
    IF i > Len(s) THEN [ok |-> FALSE]
    ELSE IF s[i] = backslash
    THEN IF i + 1 > Len(s) THEN [ok |-> FALSE]
         ELSE IF s[i + 1] = nl THEN literalFrom(s, i + 2, depth, out)
         ELSE IF isOctal(s[i + 1])
         THEN literalFrom(s, i + 1 + Len(OctalAt(s, i + 1)), depth,
                          Append(out, byteOf(octalOf(OctalAt(s, i + 1), 0) % 256)))
         ELSE literalFrom(s, i + 2, depth,
                          Append(out, CASE s[i + 1] = "n" -> nl
                                        [] s[i + 1] = "r" -> cr
                                        [] s[i + 1] = "t" -> tab
                                        [] s[i + 1] = "b" -> backspace
                                        [] s[i + 1] = "f" -> formfeed
                                        [] OTHER -> s[i + 1]))
    ELSE IF s[i] = lparen THEN literalFrom(s, i + 1, depth + 1, Append(out, s[i]))
    ELSE IF s[i] = rparen
    THEN IF depth = 1 THEN [ok |-> TRUE, v |-> out, end |-> i]
         ELSE literalFrom(s, i + 1, depth - 1, Append(out, s[i]))
    ELSE literalFrom(s, i + 1, depth, Append(out, s[i]))

\* C23: a literal string ends at the ")" that balances its "(", unescaped
\* parentheses inside are kept; a backslash before n r t b f gives the
\* control byte, before \ ( ) that character, an unknown escape drops the
\* backslash, a backslash before a newline gives nothing, an octal escape
\* of one to three digits gives the byte with that value
C23_LiteralDecoded ==
    (arg.kind = "string" /\ ret.op = "parseValue" /\ ret.before = 0
       /\ literalFrom(file, 2, 1, <<>>).ok)
        => /\ ~ret.err /\ ~ret.loops
           /\ ret.val = VStr(literalFrom(file, 2, 1, <<>>).v)
           /\ ptr = literalFrom(file, 2, 1, <<>>).end

\* white space of the format in a hex string
HexSpaces == {space, tab, cr, nl}

\* the hexadecimal digits
HexDigits == DigitBytes \cup {"a", "b", "c", "d", "e", "f", "A", "B", "C", "D", "E", "F"}

\* the bytes of s that are in the set S, in their order
RECURSIVE keep(_, _)
keep(s, S) ==
    IF s = <<>> THEN <<>>
    ELSE IF Head(s) \in S THEN <<Head(s)>> \o keep(Tail(s), S) ELSE keep(Tail(s), S)

\* the bytes hexadecimal digits spell, two by two, a last single one
\* followed by 0
RECURSIVE pairsOf(_)
pairsOf(digits) ==
    IF digits = <<>> THEN <<>>
    ELSE IF Len(digits) = 1 THEN <<byteOf(16 * fromHexChar(digits[1]))>>
    ELSE <<byteOf(16 * fromHexChar(digits[1]) + fromHexChar(digits[2]))>>
         \o pairsOf(SubSeq(digits, 3, Len(digits)))

\* the first ">" of s, 0 if it has none
HexEnd(s) ==
    IF \E i \in 1..Len(s) : s[i] = rangle
    THEN CHOOSE i \in 1..Len(s) : s[i] = rangle /\ \A j \in 1..(i - 1) : s[j] # rangle
    ELSE 0

\* C24: a hex string is decoded from its digits only: white space (space,
\* tab, CR, LF) anywhere between "<" and ">" leaves the value what it is,
\* every two digits give a byte, a last single digit is followed by 0
C24_HexIgnoresSpace ==
    (arg.kind = "hex" /\ ret.op = "parseValue" /\ ret.before = 0 /\ HexEnd(file) > 0
       /\ \A i \in 2..(HexEnd(file) - 1) : file[i] \in HexDigits \cup HexSpaces)
        => /\ ~ret.err /\ ~ret.loops
           /\ ret.val = VStr(pairsOf(keep(SubSeq(file, 2, HexEnd(file) - 1), HexDigits)))
           /\ ptr = HexEnd(file)

====
